---- MODULE Spec2Model ----
(***************************************************************************)
(* A model of pbt, a build tool for a repository of interdependent         *)
(* packages: the dependency graph (pbt/package/graph.py), the version      *)
(* consistency pass and the publish gate (pbt/package/pipeline.py), the    *)
(* version-spec functions and the build cache (pbt/package/manager/        *)
(* manager.py), the snapshot store (pbt/diff.py) and the build step        *)
(* (pbt/package/manager/python.py, poetry.py).                             *)
(*                                                                         *)
(* The program is single-threaded: every action below is one call of one   *)
(* method, run to completion.  Each part of the program has its own        *)
(* specification (SpecGraph, SpecEnforce, ...), which holds the variables  *)
(* of the other parts at their initial values.                             *)
(***************************************************************************)
EXTENDS Integers, Sequences, FiniteSets, TLC

VARIABLES
    \* ---- pbt/package/graph.py, pbt/package/pipeline.py
    pkgs,        \* Dict[str, Package]: the owned packages, by name
    graph,       \* PkgGraph: nodes, edges with is_dev, invert_dependencies
    fromPkgs,    \* outcome of the last PkgGraph.from_pkgs: "none", "ok", "cycle"
    depQuery,    \* the last PkgGraph.dependencies call and what it returned
    \* ---- build_cache, pbt/package/manager/manager.py
    cache,       \* the _cache dictionary: keys "db" (a dict object) and "count"
    heap,        \* the live dict objects made for _cache["db"], by identity
    scopes,      \* the open `with build_cache()` scopes, outermost first: the
                 \* dict object each was given
    written,     \* history: the keys written since the outermost scope opened
    lastExit,    \* history: how the last scope ended: "none", "return", "raise"
    \* ---- the package's git checkout and its snapshot store, pbt/diff.py
    commit,      \* git rev-parse HEAD: the current commit id
    head,        \* content of each file at HEAD, 0 when the commit has no such file
    work,        \* content of each file in the working tree, 0 when absent
    edits,       \* how many times the developer has written or removed a file
    db,          \* the RocksDBDict: commit_id, changed_files, content:<path>
    diffs,       \* the Diff instances the caller holds, by slot
    diffValid,   \* history: the Diff was computed from the tree as it is now and
                 \* only such Diffs have been saved since
    lastCheck,   \* history: what is_modified last returned for the Diff, since
                 \* store and tree last changed ("none" before)
    prevCheck,   \* history: the same for the call before that one
    lastOp,      \* history: the last call made on a Diff and its outcome
    \* ---- the build step, pbt/package/manager/python.py and poetry.py
    dist,        \* the distribution directory of the package
    lastBuild,   \* history: what the last call of build found and did
    scopeRuns,   \* history: the option combinations built in the open scope
    \* ---- enforce_version_consistency and next_version, pipeline.py, manager.py
    lastPass,    \* history: the last pass, its arguments and what it did
    bumps,       \* how many versions have been bumped, here or in the registry
    \* ---- publish, pipeline.py
    registry,    \* what get_latest_version_and_hash returns for each package
    localHash,   \* what compute_pkg_hash returns for each package
    lastPublish, \* history: the last call of publish and what it did
    lastDiff,    \* history: the last call of RemoteDiff.from_pkg and its outcome
    \* ---- VersionSpec, pbt/package/package.py
    versionSpec,    \* the version spec at hand, as its string
    lastIntersect,  \* history: the last call of intersect and its outcome
    lastCompatible, \* history: the last call of is_version_compatible
    lastUpdate,     \* history: the last call of update_version_spec
    specLists,      \* the spec lists gathered for one third-party package,
                    \* one list for each owner that declares it
    lastFind,       \* history: the last call of find_latest_specs
    lastParse,      \* history: the last call of parse_version_spec
    lastUpdateVersion, \* history: the last call of VersionSpec.update_version
    lastInstall,    \* history: the last call of pipeline.install
    lastDiscover,   \* history: the last call of pipeline.discover
    manifest,       \* pkg.location / "pyproject.toml" of the masked package
    cachedManifest, \* cfg.pkg_cache_dir(pkg) / "pyproject.toml"
    failedManifest, \* cfg.pkg_cache_dir(pkg) / "pyproject.failed.toml"
    maskScope       \* the mask scope: open or not, and history of the last one

graphVars == <<pkgs, graph, fromPkgs, depQuery>>
cacheVars == <<cache, heap, scopes, written, lastExit>>
treeVars == <<commit, head, work, edits>>
diffVars == <<db, diffs, diffValid, lastCheck, prevCheck, lastOp>>

buildVars == <<dist, lastBuild, scopeRuns>>

enforceVars == <<lastPass, bumps>>
publishVars == <<registry, localHash, lastPublish, lastDiff>>
versionVars ==
    <<versionSpec, lastIntersect, lastCompatible, lastUpdate, specLists, lastFind,
      lastParse, lastUpdateVersion>>

maskVars == <<manifest, cachedManifest, failedManifest, maskScope>>
pipelineVars == <<lastInstall, lastDiscover, maskVars>>
vars == <<pipelineVars, graphVars, cacheVars, treeVars, diffVars, buildVars, enforceVars,
          publishVars, versionVars>>

(***************************************************************************)
(* Names.  Owned packages live in the repository; third-party packages     *)
(* appear only as dependencies.                                            *)
(***************************************************************************)
Owned == {"A", "B", "C"}
ThirdParty == {"x"}
Names == Owned \cup ThirdParty

\* Bound: how many dependency entries the manifests declare in total.
MaxDeps == 3

(***************************************************************************)
(* Version specs are strings.  A string is modelled as a sequence of       *)
(* tokens: one token per operator character, blank or comma, and one       *)
(* token per version literal, which carries the literal's dotted numbers.  *)
(***************************************************************************)
Ch(c) == [c |-> c, v |-> <<>>]
Lit(parts) == [c |-> "#", v |-> parts]

\* DepConstraint(version_spec, constraint): constraint None is "".
DepConstraint(version_spec, constraint) ==
    [version_spec |-> version_spec, constraint |-> constraint]

\* The spec every dependency of the graph specification declares: "^1.0.0".
DefaultSpecs == << DepConstraint(<<Ch("^"), Lit(<<1, 0, 0>>)>>, "") >>

\* Package(version, dependencies, dev_dependencies); the name is the key in pkgs.
Package(version, dependencies, dev_dependencies) ==
    [version |-> version,
     dependencies |-> dependencies,
     dev_dependencies |-> dev_dependencies]

NoDeps == [d \in {} |-> DefaultSpecs]

EmptyGraph == [nodes |-> {}, edges |-> {}, is_dev |-> {}, inv |-> [t \in {} |-> <<>>]]

NoQuery == [pkg |-> "", include_dev |-> FALSE, result |-> {}]

\* Bound: how deep scopes nest.
MaxDepth == 3

CacheKeys == {"xxx", "yyy"}

EmptyDict == [k \in {} |-> 0]

(***************************************************************************)
(* The checkout of one package and its snapshot store                      *)
(***************************************************************************)
\* The files of the package that its include patterns cover, in path order.
FileSeq == <<"lib0/main.py", "pyproject.toml">>
Files == {FileSeq[i] : i \in 1..Len(FileSeq)}

\* Bounds: file contents are 1..MaxContent; commit ids are 1..MaxCommits.
\* The developer writes or removes a file at most MaxEdits times.
MaxContent == 2
MaxCommits == 2
MaxEdits == 2

Contents == 1..MaxContent
DiffSlots == {1, 2}

\* GitFileStatus(is_deleted, fpath)
GitFileStatus(is_deleted, fpath) == [is_deleted |-> is_deleted, fpath |-> fpath]

\* A store with no key.  commit_id 0 and has_changed_files FALSE stand for a
\* missing key; content holds the content:<path> keys that exist.
EmptyStore ==
    [commit_id |-> 0, has_changed_files |-> FALSE, changed_files |-> <<>>,
     content |-> [f \in {} |-> 0]]

\* A slot that holds no Diff.
NoDiff ==
    [commit_id |-> 0, changed_files |-> <<>>,
     changed_files_content |-> [f \in {} |-> 0]]

NoOp == [op |-> "none", slot |-> 0, result |-> "none"]

(***************************************************************************)
(* The distribution directory and the build step                           *)
(***************************************************************************)
\* build_opts = (tuple(skip_deps), tuple(sorted(additional_deps.keys()))).
NoOpts == <<<<>>, <<>>>>
SkipOpts == <<<<"B">>, <<>>>>
BuildOpts == {NoOpts, SkipOpts}

\* The two build methods: Poetry.build and PythonPkgManager.build.
Managers == {"poetry", "python"}

\* The distribution directory: whether it exists, whether it holds the wheel
\* and the sdist of the package, and whether it holds a file that no build
\* makes (flag.txt in the tests).
NoDist == [exists |-> FALSE, whl |-> FALSE, tar |-> FALSE, flag |-> FALSE]

NoBuild ==
    [called |-> FALSE, clean_dist |-> FALSE,
     hadSnapshot |-> FALSE, artifacts |-> FALSE, unchanged |-> FALSE,
     distExisted |-> FALSE, hit |-> FALSE, ran |-> FALSE, wiped |-> FALSE,
     flagLeft |-> FALSE, rerun |-> FALSE, rerunInARow |-> FALSE,
     failed |-> FALSE, stored |-> FALSE]

\* Within the outermost open scope: the option combinations the build
\* command has run for with success (ran), and of these the one no build
\* with another combination has been recorded after (row).
NoRuns == [ran |-> {}, row |-> {}]

(***************************************************************************)
(* Versions, consistency modes, the registry                               *)
(***************************************************************************)
\* Optional values that are None.
None == <<>>

\* Bound: how many times a version is bumped, here or in the registry.
MaxBumps == 1

\* The sha256 a wheel hashes to; hashes are only compared for equality.
Hashes == {"h1", "h2"}

Rules == {"major", "minor", "patch"}

\* VersionConsistent
Modes == {"strict", "compatible", "no_check"}

\* The freeze_packages arguments of the model.
Freezes == {{}, {"C"}}

\* The pkg_names arguments of the model.
PublishRequests == {<<"A">>, <<"B">>, <<"C">>, <<"B", "A">>}

NoPass ==
    [called |-> FALSE, ok |-> FALSE, mode |-> "", thirdparty_mode |-> "",
     freeze_packages |-> {}, saved |-> {}, rewritten |-> {}, repeat |-> FALSE,
     before |-> <<>>, inv |-> <<>>, conflict |-> FALSE, merged |-> <<>>]

NoPublish ==
    [called |-> FALSE, candidates |-> {}, drift |-> {}, pending |-> {},
     raised |-> FALSE, calls |-> <<>>, pkg_names |-> <<>>, differs |-> {}]

NoRemoteDiff ==
    [called |-> FALSE, pkg |-> "", raised |-> FALSE,
     is_version_diff |-> FALSE, is_content_changed |-> FALSE]

\* Bounds: the major and the minor numbers of the versions that specs name.
MaxMajor == 2
MaxMinor == 2

NoIntersect ==
    [called |-> FALSE, other |-> <<>>, ok |-> FALSE,
     spec |-> [lowerbound |-> <<>>, upperbound |-> <<>>,
               is_lowerbound_inclusive |-> FALSE,
               is_upperbound_inclusive |-> FALSE]]

NoCompatible == [called |-> FALSE, version |-> <<>>, value |-> FALSE]
NoUpdate == [called |-> FALSE, version |-> <<>>, ok |-> FALSE, version_spec |-> <<>>]
NoFind == [called |-> FALSE, mode |-> "", ok |-> FALSE, specs |-> <<>>]
NoParse ==
    [called |-> FALSE, ok |-> FALSE,
     spec |-> [lowerbound |-> <<>>, upperbound |-> <<>>,
               is_lowerbound_inclusive |-> FALSE,
               is_upperbound_inclusive |-> FALSE]]
\* Bound: how many package directories the managers find.
MaxLoaded == 2

NoDiscover ==
    [called |-> FALSE, loaded |-> <<>>, outcome |-> "none",
     pkgs |-> <<>>, graph |-> EmptyGraph]

\* A pyproject.toml: the names under dependencies and dev-dependencies
\* (optional-dependencies for maturin), and whether its bytes were produced
\* by dumps(doc) instead of being the ones the developer wrote.
ManifestFile(dependencies, dev_dependencies, dumped) ==
    [exists |-> TRUE, dependencies |-> dependencies,
     dev_dependencies |-> dev_dependencies, dumped |-> dumped]

NoFile ==
    [exists |-> FALSE, dependencies |-> {}, dev_dependencies |-> {},
     dumped |-> FALSE]

\* No mask scope is open and none has been.
NoScope ==
    [open |-> FALSE, active |-> FALSE, exit |-> "none", manager |-> "",
     skip_deps |-> {}, additional_deps |-> {}, disable |-> FALSE,
     original |-> NoFile, doc |-> NoFile, ops |-> {}]

NoInstall ==
    [called |-> FALSE, pkg_names |-> <<>>, include_dev |-> FALSE,
     use_prebuilt_binaries |-> {}, calls |-> <<>>]

NoUpdateVersion ==
    [called |-> FALSE, version |-> <<>>, raised |-> FALSE, none |-> FALSE,
     spec |-> [lowerbound |-> <<>>, upperbound |-> <<>>,
               is_lowerbound_inclusive |-> FALSE,
               is_upperbound_inclusive |-> FALSE]]

\* Bound: the greatest number in a part of the versions that are parsed.
MaxPart == 2

\* Bound: the number of owners whose spec lists find_latest_specs is given.
MaxSpecs == 3

(***************************************************************************)
(* The initial values of the variables, part by part                       *)
(***************************************************************************)
InitGraphVars ==
    /\ pkgs = [p \in Owned |-> Package(<<1, 0, 0>>, NoDeps, NoDeps)]
    /\ graph = EmptyGraph
    /\ fromPkgs = "none"
    /\ depQuery = NoQuery

InitCacheVars ==
    /\ cache = [k \in {} |-> 0]
    /\ heap = [o \in {} |-> EmptyDict]
    /\ scopes = <<>>
    /\ written = {}
    /\ lastExit = "none"

\* The package is committed with its manifest; nothing is changed yet.
InitTreeVars ==
    /\ commit = 1
    /\ head = [f \in Files |-> IF f = "pyproject.toml" THEN 1 ELSE 0]
    /\ work = head
    /\ edits = 0

InitDiffVars ==
    /\ db = EmptyStore
    /\ diffs = [d \in DiffSlots |-> NoDiff]
    /\ diffValid = [d \in DiffSlots |-> FALSE]
    /\ lastCheck = [d \in DiffSlots |-> "none"]
    /\ prevCheck = [d \in DiffSlots |-> "none"]
    /\ lastOp = NoOp

InitBuildVars ==
    /\ dist = NoDist
    /\ lastBuild = NoBuild
    /\ scopeRuns = NoRuns

InitEnforceVars ==
    /\ lastPass = NoPass
    /\ bumps = 0

\* Nothing is released yet: the registry answers None, here (None, "").
InitVersionVars ==
    /\ versionSpec = <<>>
    /\ lastIntersect = NoIntersect
    /\ lastCompatible = NoCompatible
    /\ lastUpdate = NoUpdate
    /\ specLists = <<>>
    /\ lastFind = NoFind
    /\ lastParse = NoParse
    /\ lastUpdateVersion = NoUpdateVersion

InitPipelineVars ==
    /\ lastInstall = NoInstall
    /\ lastDiscover = NoDiscover
    /\ manifest = ManifestFile({}, {}, FALSE)
    /\ cachedManifest = NoFile
    /\ failedManifest = NoFile
    /\ maskScope = NoScope

InitPublishVars ==
    /\ registry = [p \in Owned |-> [version |-> None, hash |-> ""]]
    /\ localHash = [p \in Owned |-> "h1"]
    /\ lastPublish = NoPublish
    /\ lastDiff = NoRemoteDiff

(***************************************************************************)
(* PkgGraph.from_pkgs                                                      *)
(***************************************************************************)
DepNames(pkg) == DOMAIN pkg.dependencies \cup DOMAIN pkg.dev_dependencies

\* The edges from_pkgs adds: one per declared dependency, prod or dev.
GraphEdgesProdOnly(P) ==
    {e \in (DOMAIN P) \X Names : e[2] \in DOMAIN P[e[1]].dependencies}

GraphEdges(P) ==
    {e \in (DOMAIN P) \X Names : e[2] \in DepNames(P[e[1]])}

\* add_edge(pkg.name, dep, is_dev=...) runs for the prod entries first and the
\* dev entries second, so for a name declared in both the dev flag is kept.
GraphDevEdges(P) ==
    {e \in GraphEdges(P) : e[2] \in DOMAIN P[e[1]].dev_dependencies}

\* ThirdPartyPackage.invert_dependencies: per third-party node, the spec list of
\* each owner, the dev entry overwriting the prod entry of the same owner.
GraphInv(P) ==
    [t \in {e[2] : e \in GraphEdges(P)} \ DOMAIN P |->
        [o \in {p \in DOMAIN P : t \in DepNames(P[p])} |->
            IF t \in DOMAIN P[o].dev_dependencies
            THEN P[o].dev_dependencies[t]
            ELSE P[o].dependencies[t]]]

\* nx.find_cycle(g): whether the graph has a directed cycle.  Nodes without an
\* edge into the remaining nodes are removed until none is left to remove.
RECURSIVE RemoveSinks(_, _)
RemoveSinks(N, E) ==
    LET sinks == {n \in N : \A e \in E : e[1] = n => e[2] \notin N}
    IN  IF sinks = {} THEN N ELSE RemoveSinks(N \ sinks, E)

find_cycle(N, E) == RemoveSinks(N, E) # {}

from_pkgs(P) ==
    LET E == GraphEdges(P)
        N == DOMAIN P \cup {e[2] : e \in E}
    IN  IF find_cycle(N, E)
        THEN [ok |-> FALSE, g |-> EmptyGraph]
        ELSE [ok |-> TRUE,
              g |-> [nodes |-> N, edges |-> E,
                     is_dev |-> GraphDevEdges(P), inv |-> GraphInv(P)]]

(***************************************************************************)
(* PkgGraph.dependencies                                                   *)
(***************************************************************************)
\* nx.dfs_preorder_nodes(g, pkg_name): the nodes reachable from pkg_name.
RECURSIVE Reach(_, _)
Reach(g, S) ==
    LET next == S \cup {e[2] : e \in {d \in g.edges : d[1] \in S}}
    IN  IF next = S THEN S ELSE Reach(g, next)

predecessors(g, vid) == {e[1] : e \in {d \in g.edges : d[2] = vid}}

\* The filter of include_dev=False: a node is skipped when every edge into it,
\* from any node of the graph, is a dev edge.
dependencies_filter(g, nodes) ==
    {vid \in nodes :
        ~ \A uid \in predecessors(g, vid) : <<uid, vid>> \in g.is_dev}

dependencies(g, pkg_name, include_dev) ==
    LET nodes == Reach(g, {pkg_name}) \ {pkg_name}
    IN  IF include_dev THEN nodes ELSE dependencies_filter(g, nodes)

(***************************************************************************)
(* Diff: from_local, is_modified, save (pbt/diff.py)                       *)
(***************************************************************************)
\* git status --porcelain over the package: one entry per file whose working
\* copy differs from HEAD; the status code has a D when the file is gone.
get_new_modified_deleted_files(hd, tree) ==
    {GitFileStatus(tree[f] = 0, f) : f \in {g \in Files : hd[g] # tree[g]}}

\* The order of sorted() over GitFileStatus tuples: is_deleted, then fpath.
Rank(f) == CHOOSE i \in 1..Len(FileSeq) : FileSeq[i] = f

StatusLess(x, y) ==
    \/ ~x.is_deleted /\ y.is_deleted
    \/ x.is_deleted = y.is_deleted /\ Rank(x.fpath) < Rank(y.fpath)

RECURSIVE sorted(_)
sorted(S) ==
    IF S = {} THEN <<>>
    ELSE LET m == CHOOSE x \in S : \A y \in S \ {x} : StatusLess(x, y)
         IN  <<m>> \o sorted(S \ {m})

\* Diff.from_local: the commit id and the sorted changed files, no content.
from_local(cid, hd, tree) ==
    [commit_id |-> cid,
     changed_files |-> sorted(get_new_modified_deleted_files(hd, tree)),
     changed_files_content |-> [f \in {} |-> 0]]

\* db.get(b"content:<path>"): 0 stands for None.
db_get_content(store, fpath) ==
    IF fpath \in DOMAIN store.content THEN store.content[fpath] ELSE 0

\* f with key k set to v.
SetKey(f, k, v) == [x \in DOMAIN f \cup {k} |-> IF x = k THEN v ELSE f[x]]

\* f without key k; deleting a key that is not there leaves the store as it
\* is (RocksDB's delete).
DelKey(f, k) == [x \in DOMAIN f \ {k} |-> f[x]]

\* Lines 104-118: the loop of is_modified from file i on.  cch is
\* changed_files_content, where 0 stands for None.  read_file raises when
\* the file is not in the tree; files are within the size limit.
RECURSIVE is_modified_loop(_, _, _, _, _)
is_modified_loop(files, i, cch, store, tree) ==
    IF i > Len(files) THEN [result |-> "false", cache |-> cch]
    ELSE LET file == files[i]
             prev_file_content == db_get_content(store, file.fpath)
             cached == file.fpath \in DOMAIN cch
         IN  IF file.is_deleted
             THEN is_modified_loop(files, i + 1, cch, store, tree)
             ELSE IF ~cached /\ tree[file.fpath] = 0
             THEN [result |-> "error", cache |-> cch]
             ELSE LET file_content == IF cached THEN cch[file.fpath]
                                      ELSE tree[file.fpath]
                  IN  IF prev_file_content # file_content
                      THEN [result |-> "true",
                            cache |-> SetKey(cch, file.fpath, file_content)]
                      ELSE is_modified_loop(files, i + 1,
                               SetKey(cch, file.fpath, 0), store, tree)

\* is_modified without the comparison of the changed-file lists.
is_modified_no_list(diff, store, tree) ==
    IF store.commit_id # diff.commit_id
    THEN [result |-> "true", cache |-> diff.changed_files_content]
    ELSE is_modified_loop(diff.changed_files, 1, diff.changed_files_content,
                          store, tree)

\* is_modified that takes a store without a commit id for a match.
is_modified_none_ok(diff, store, tree) ==
    IF store.commit_id # 0 /\ store.commit_id # diff.commit_id
    THEN [result |-> "true", cache |-> diff.changed_files_content]
    ELSE IF store.has_changed_files /\ store.changed_files # diff.changed_files
    THEN [result |-> "true", cache |-> diff.changed_files_content]
    ELSE is_modified_loop(diff.changed_files, 1, diff.changed_files_content,
                          store, tree)

\* Diff.is_modified: the result ("true", "false", or "error" for a raised
\* exception) and changed_files_content after the call.
is_modified(diff, store, tree) ==
    IF store.commit_id # diff.commit_id
    THEN [result |-> "true", cache |-> diff.changed_files_content]
    ELSE IF ~store.has_changed_files
    THEN [result |-> "error", cache |-> diff.changed_files_content]
    ELSE IF store.changed_files # diff.changed_files
    THEN [result |-> "true", cache |-> diff.changed_files_content]
    ELSE is_modified_loop(diff.changed_files, 1, diff.changed_files_content,
                          store, tree)

\* Lines 135-147: the loop of save from file i on, over the content keys.
RECURSIVE save_loop(_, _, _, _, _)
save_loop(files, i, cch, content, tree) ==
    IF i > Len(files) THEN [result |-> "ok", content |-> content]
    ELSE LET file == files[i]
             cached == file.fpath \in DOMAIN cch
         IN  IF file.is_deleted
             THEN save_loop(files, i + 1, cch, DelKey(content, file.fpath), tree)
             ELSE IF ~cached /\ tree[file.fpath] = 0
             THEN [result |-> "error", content |-> content]
             ELSE IF cached /\ cch[file.fpath] = 0
             THEN save_loop(files, i + 1, cch, content, tree)
             ELSE save_loop(files, i + 1, cch,
                      SetKey(content, file.fpath,
                             IF cached THEN cch[file.fpath] ELSE tree[file.fpath]),
                      tree)

\* Lines 125-133: the keys of files of the stored list that the Diff does not
\* list are deleted; the stored list is read after line 123 has written it.
RECURSIVE DelKeys(_, _)
DelKeys(content, ks) ==
    IF ks = {} THEN content
    ELSE LET k == CHOOSE x \in ks : TRUE
         IN  DelKeys(DelKey(content, k), ks \ {k})

Paths(files) == {files[i].fpath : i \in 1..Len(files)}

\* save that leaves the stored changed-file list as it was.
save_keep_list(diff, store, tree) ==
    LET r == save_loop(diff.changed_files, 1, diff.changed_files_content,
                       store.content, tree)
    IN  [result |-> r.result,
         db |-> [commit_id |-> diff.commit_id,
                 has_changed_files |-> TRUE,
                 changed_files |-> store.changed_files,
                 content |-> r.content]]

\* Diff.save: "ok" or "error" for a raised exception, and the store after
\* the call (what was written before an exception stays written).
save(diff, store, tree) ==
    LET store1 == [store EXCEPT !.commit_id = diff.commit_id,
                                !.has_changed_files = TRUE,
                                !.changed_files = diff.changed_files]
        prev_changed_files == Paths(store1.changed_files)
        content1 == DelKeys(store1.content,
                            prev_changed_files \ Paths(diff.changed_files))
        r == save_loop(diff.changed_files, 1, diff.changed_files_content,
                       content1, tree)
    IN  [result |-> r.result, db |-> [store1 EXCEPT !.content = r.content]]

(***************************************************************************)
(* build_cache: a context manager over one module-level dictionary         *)
(***************************************************************************)
\* A new dict object: the first identity no live object has.
NewDict(h) ==
    CHOOSE n \in 1..(Cardinality(DOMAIN h) + 1) :
        n \notin DOMAIN h /\ \A m \in 1..(n - 1) : m \in DOMAIN h

\* The dict objects something still refers to: _cache["db"] and the variable
\* of each open with block.  Python frees the others.
collect(h, c, sc) ==
    [o \in {x \in DOMAIN h : ("db" \in DOMAIN c /\ x = c.db)
                                \/ \E i \in 1..Len(sc) : sc[i] = x} |-> h[o]]

\* Lines 443-450: the code up to the yield.  Gives the cache and the heap.
build_cache_enter(c, h) ==
    LET h1 == IF "db" \in DOMAIN c THEN h
              ELSE [o \in DOMAIN h \cup {NewDict(h)} |->
                        IF o \in DOMAIN h THEN h[o] ELSE EmptyDict]
        dct == IF "db" \in DOMAIN c THEN c.db ELSE NewDict(h)
        count == IF "count" \in DOMAIN c THEN c.count ELSE 0
    IN  [cache |-> [db |-> dct, count |-> count + 1], heap |-> h1]

\* The exit without try/finally: an exception skips the bookkeeping.
build_cache_exit_nofinally(c, h, raised) ==
    IF raised THEN [cache |-> c, heap |-> h]
    ELSE IF c.count - 1 = 0
         THEN [cache |-> [db |-> NewDict(h), count |-> 0],
               heap |-> [o \in DOMAIN h \cup {NewDict(h)} |->
                            IF o \in DOMAIN h THEN h[o] ELSE EmptyDict]]
         ELSE [cache |-> [c EXCEPT !.count = @ - 1], heap |-> h]

\* Lines 451-454: the finally block, run when the body returns and when it
\* raises.
build_cache_exit(c, h, raised) ==
    IF c.count - 1 = 0
    THEN [cache |-> [db |-> NewDict(h), count |-> 0],
          heap |-> [o \in DOMAIN h \cup {NewDict(h)} |->
                       IF o \in DOMAIN h THEN h[o] ELSE EmptyDict]]
    ELSE [cache |-> [c EXCEPT !.count = @ - 1], heap |-> h]

\* with build_cache() as d: a scope opens and is given _cache["db"].
EnterScope ==
    /\ Len(scopes) < MaxDepth
    /\ LET r == build_cache_enter(cache, heap)
       IN  /\ cache' = r.cache
           /\ heap' = r.heap
           /\ scopes' = Append(scopes, r.cache.db)
    /\ UNCHANGED <<pipelineVars, versionVars, written, lastExit, graphVars, treeVars, diffVars, buildVars,
                   enforceVars, publishVars>>

\* d[key] = value, through the dict the i-th open scope was given.
WriteEntry(i, key, value) ==
    /\ i \in 1..Len(scopes)
    /\ heap' = [heap EXCEPT ![scopes[i]] =
                    [k \in DOMAIN @ \cup {key} |-> IF k = key THEN value ELSE @[k]]]
    /\ written' = written \cup {key}
    /\ UNCHANGED <<pipelineVars, versionVars, cache, scopes, lastExit, graphVars, treeVars, diffVars, buildVars,
                   enforceVars, publishVars>>

\* The innermost scope ends, by its body returning or by its body raising.
ExitScope(raised) ==
    /\ scopes # <<>>
    /\ LET r == build_cache_exit(cache, heap, raised)
       IN  /\ cache' = r.cache
           /\ heap' = collect(r.heap, r.cache, SubSeq(scopes, 1, Len(scopes) - 1))
    /\ scopes' = SubSeq(scopes, 1, Len(scopes) - 1)
    /\ written' = IF Len(scopes) = 1 THEN {} ELSE written
    /\ lastExit' = IF raised THEN "raise" ELSE "return"
    /\ scopeRuns' = IF Len(scopes) = 1 THEN NoRuns ELSE scopeRuns
    /\ UNCHANGED <<pipelineVars, versionVars, graphVars, treeVars, diffVars, dist, lastBuild,
                   enforceVars, publishVars>>

NextCache ==
    \/ EnterScope
    \/ \E i \in 1..MaxDepth, key \in CacheKeys, value \in 1..2 : WriteEntry(i, key, value)
    \/ \E raised \in BOOLEAN : ExitScope(raised)

InitCache ==
    /\ InitGraphVars /\ InitCacheVars /\ InitTreeVars /\ InitDiffVars
    /\ InitBuildVars /\ InitEnforceVars /\ InitPublishVars /\ InitPipelineVars /\ InitVersionVars

SpecCache == InitCache /\ [][NextCache]_vars

(***************************************************************************)
(* The specification of the snapshot store: the developer edits, deletes   *)
(* and commits files while callers compute, query and save Diffs           *)
(***************************************************************************)
\* Every Diff computed so far is out of date once the tree changes; the
\* histories of the last calls start again.
TreeChanged ==
    /\ diffValid' = [d \in DiffSlots |-> FALSE]
    /\ lastCheck' = [d \in DiffSlots |-> "none"]
    /\ prevCheck' = [d \in DiffSlots |-> "none"]
    /\ lastOp' = NoOp
    /\ lastBuild' = NoBuild

\* A file is created or rewritten with content c.
WriteFile(f, c) ==
    /\ work[f] # c
    /\ edits < MaxEdits
    /\ edits' = edits + 1
    /\ work' = [work EXCEPT ![f] = c]
    /\ TreeChanged
    /\ UNCHANGED <<pipelineVars, versionVars, commit, head, db, diffs, dist, scopeRuns, graphVars, cacheVars,
                   enforceVars, publishVars>>

\* A file is removed from the working tree.
DeleteFile(f) ==
    /\ work[f] # 0
    /\ edits < MaxEdits
    /\ edits' = edits + 1
    /\ work' = [work EXCEPT ![f] = 0]
    /\ TreeChanged
    /\ UNCHANGED <<pipelineVars, versionVars, commit, head, db, diffs, dist, scopeRuns, graphVars, cacheVars,
                   enforceVars, publishVars>>

\* Git.commit_all: git add -A and git commit; HEAD becomes the working tree.
commit_all ==
    /\ head # work
    /\ commit < MaxCommits
    /\ head' = work
    /\ commit' = commit + 1
    /\ TreeChanged
    /\ UNCHANGED <<pipelineVars, versionVars, work, edits, db, diffs, dist, scopeRuns, graphVars, cacheVars,
                   enforceVars, publishVars>>

\* diff = Diff.from_local(db, manager, pkg), kept in slot d.
FromLocal(d) ==
    /\ diffs' = [diffs EXCEPT ![d] = from_local(commit, head, work)]
    /\ diffValid' = [diffValid EXCEPT ![d] = TRUE]
    /\ lastCheck' = [lastCheck EXCEPT ![d] = "none"]
    /\ prevCheck' = [prevCheck EXCEPT ![d] = "none"]
    /\ lastOp' = [op |-> "from_local", slot |-> d, result |-> "ok"]
    /\ UNCHANGED <<pipelineVars, versionVars, db, treeVars, graphVars, cacheVars, buildVars,
                   enforceVars, publishVars>>

\* diff.is_modified(db) on the Diff of slot d.
IsModified(d) ==
    /\ diffs[d] # NoDiff
    /\ LET r == is_modified(diffs[d], db, work)
       IN  /\ diffs' = [diffs EXCEPT ![d].changed_files_content = r.cache]
           /\ lastCheck' = [lastCheck EXCEPT ![d] = r.result]
           /\ prevCheck' = [prevCheck EXCEPT ![d] = lastCheck[d]]
           /\ lastOp' = [op |-> "is_modified", slot |-> d, result |-> r.result]
    /\ UNCHANGED <<pipelineVars, versionVars, db, diffValid, treeVars, graphVars, cacheVars, buildVars,
                   enforceVars, publishVars>>

\* diff.save(db) on the Diff of slot d.  Saving a Diff that is out of date
\* puts the store out of step with every Diff held.
Save(d) ==
    /\ diffs[d] # NoDiff
    /\ LET r == save(diffs[d], db, work)
       IN  /\ db' = r.db
           /\ lastOp' = [op |-> "save", slot |-> d, result |-> r.result]
    /\ diffValid' = IF diffValid[d] THEN diffValid
                    ELSE [e \in DiffSlots |-> FALSE]
    /\ lastCheck' = [e \in DiffSlots |-> "none"]
    /\ prevCheck' = [e \in DiffSlots |-> "none"]
    /\ UNCHANGED <<pipelineVars, versionVars, diffs, treeVars, graphVars, cacheVars, buildVars,
                   enforceVars, publishVars>>

NextDiff ==
    \/ \E f \in Files, c \in Contents : WriteFile(f, c)
    \/ \E f \in Files : DeleteFile(f)
    \/ commit_all
    \/ \E d \in DiffSlots : FromLocal(d)
    \/ \E d \in DiffSlots : IsModified(d)
    \/ \E d \in DiffSlots : Save(d)

InitDiff ==
    /\ InitGraphVars /\ InitCacheVars /\ InitTreeVars /\ InitDiffVars
    /\ InitBuildVars /\ InitEnforceVars /\ InitPublishVars /\ InitPipelineVars /\ InitVersionVars

SpecDiff == InitDiff /\ [][NextDiff]_vars

(***************************************************************************)
(* build (pbt/package/manager/python.py, poetry.py)                        *)
(***************************************************************************)
\* Poetry.mask, change_dependencies: inside the with block pyproject.toml is
\* rewritten without the skipped and with the additional dependencies; with
\* no such dependency the manifest is left alone.  The rewritten manifest of
\* content c is content c + MaxContent, which no file the developer writes
\* has; the manifest lists the dependencies the caller skips.
mask(tree, opts) ==
    IF opts = NoOpts THEN tree
    ELSE [tree EXCEPT !["pyproject.toml"] = @ + MaxContent]

\* The three differences is_modified looks for, stated on the store and the
\* tree: in the commit id, in the changed-file list, in the content of a
\* changed file that is not deleted.
SnapshotDiffers(diff, store, tree) ==
    \/ store.commit_id # diff.commit_id
    \/ ~store.has_changed_files
    \/ store.changed_files # diff.changed_files
    \/ \E i \in 1..Len(diff.changed_files) :
        /\ ~diff.changed_files[i].is_deleted
        /\ db_get_content(store, diff.changed_files[i].fpath)
               # tree[diff.changed_files[i].fpath]

\* build_ident = (pkg.name, pkg.version)
build_ident(name) == <<name, pkgs[name].version>>

\* A build that never finds its entry in the cache.
build_cached_never(built_pkgs, ident, opts) == FALSE

\* python.py:149-150, poetry.py:306-307: the scope's dictionary holds this
\* very option combination for the package.
build_cached(built_pkgs, ident, opts) ==
    ident \in DOMAIN built_pkgs /\ built_pkgs[ident] = opts

\* A build that never takes the artifacts for up to date.
up_to_date_never(artifacts, diff, store, tree) == FALSE

\* python.py:155-161, poetry.py:312-318: wheel and sdist exist and the Diff
\* is not modified.
up_to_date(artifacts, diff, store, tree) ==
    artifacts /\ is_modified(diff, store, tree).result = "false"

\* build(pkg, skip_deps, additional_deps, release, clean_dist) of package A,
\* by Poetry.build, which deletes the directory whenever it builds, or by
\* PythonPkgManager.build; succeeds tells whether the build command exits
\* with success.  With keep, and inside a caller's scope, the history
\* keeps the option combinations the build command has run for.  The
\* record of the call tells whether the build command failed (failed) and
\* whether the call left the store other than it found it (stored).
BuildCall(opts, keep) ==
    /\ work["pyproject.toml"] # 0
    /\ \E r1 \in {build_cache_enter(cache, heap)},
          tree \in {mask(work, opts)} :
       \E diff \in {from_local(commit, head, tree)} :
       \E chk \in {IF dist.whl /\ dist.tar THEN is_modified(diff, db, tree)
                    ELSE [result |-> "skipped",
                          cache |-> diff.changed_files_content]},
          fresh \in {up_to_date(dist.whl /\ dist.tar, diff, db, tree)} :
       \E sv \in {save([diff EXCEPT !.changed_files_content = chk.cache],
                        db, tree)},
          unchanged \in {~SnapshotDiffers(diff, db, tree)} :
       \E m \in Managers, clean_dist, succeeds \in BOOLEAN :
       LET built_pkgs == r1.heap[r1.cache.db]
           ident == build_ident("A")
           hit == build_cached(built_pkgs, ident, opts)
           raised_early == ~hit /\ chk.result = "error"
           run == ~hit /\ ~fresh /\ ~raised_early
           wipe == run /\ clean_dist /\ dist.exists
           dist1 == IF wipe THEN NoDist ELSE dist
           dist2 == IF run /\ succeeds
                    THEN [exists |-> TRUE, whl |-> TRUE, tar |-> TRUE,
                          flag |-> dist1.flag]
                    ELSE dist1
           raised == raised_early \/ (run /\ (~succeeds \/ sv.result = "error"))
           recorded == (~hit /\ fresh) \/ (run /\ ~raised)
           heap1 == IF recorded
                    THEN [r1.heap EXCEPT ![r1.cache.db] = SetKey(built_pkgs, ident, opts)]
                    ELSE r1.heap
       IN  /\ m = "poetry" => clean_dist
           /\ run \/ succeeds
           /\ dist' = dist2
           /\ db' = IF run THEN sv.db ELSE db
           /\ \E r2 \in {build_cache_exit(r1.cache, heap1, raised)} :
                  cache' = r2.cache /\ heap' = collect(r2.heap, r2.cache, scopes)
           /\ lastBuild' =
                 [called |-> TRUE, clean_dist |-> clean_dist,
                  hadSnapshot |-> db # EmptyStore,
                  artifacts |-> dist.whl /\ dist.tar,
                  unchanged |-> unchanged,
                  distExisted |-> dist.exists,
                  hit |-> hit, ran |-> run, wiped |-> wipe,
                  flagLeft |-> dist2.flag,
                  rerun |-> run /\ succeeds /\ opts \in scopeRuns.ran,
                  rerunInARow |-> run /\ succeeds /\ opts \in scopeRuns.row,
                  failed |-> run /\ ~succeeds,
                  stored |-> run /\ sv.db # db]
           /\ scopeRuns' =
                 IF scopes = <<>> \/ ~keep THEN NoRuns
                 ELSE [ran |-> scopeRuns.ran
                                  \cup (IF run /\ succeeds THEN {opts} ELSE {}),
                       row |-> IF run /\ succeeds THEN {opts}
                               ELSE IF recorded THEN scopeRuns.row \cap {opts}
                               ELSE scopeRuns.row]
    /\ UNCHANGED <<pipelineVars, versionVars, scopes, written, lastExit, diffs, diffValid, lastCheck,
                   prevCheck, lastOp, treeVars, graphVars,
                   enforceVars, publishVars>>

Build(opts) == BuildCall(opts, FALSE)

\* A build whose caller holds a build_cache scope open, as the builds that
\* pipeline.install and compute_pkg_hash start.
BuildInScope(opts) == scopes # <<>> /\ BuildCall(opts, TRUE)

\* The tests' dist_dir.mkdir() and flag_file.touch().
TouchFlag ==
    /\ ~dist.flag
    /\ dist' = [dist EXCEPT !.exists = TRUE, !.flag = TRUE]
    /\ lastBuild' = NoBuild
    /\ UNCHANGED <<pipelineVars, versionVars, scopeRuns, graphVars, cacheVars, treeVars, diffVars,
                   enforceVars, publishVars>>

(***************************************************************************)
(* The specification of the build step: the developer edits and commits,   *)
(* callers open and close build_cache scopes and build package A           *)
(***************************************************************************)
NextBuild ==
    \/ \E f \in Files, c \in Contents : WriteFile(f, c)
    \/ \E f \in Files \ {"pyproject.toml"} : DeleteFile(f)
    \/ commit_all
    \/ TouchFlag
    \/ scopes = <<>> /\ EnterScope
    \/ ExitScope(FALSE)
    \/ \E opts \in BuildOpts : Build(opts)

InitBuild ==
    /\ InitGraphVars /\ InitCacheVars /\ InitTreeVars /\ InitDiffVars
    /\ InitBuildVars /\ InitEnforceVars /\ InitPublishVars /\ InitPipelineVars /\ InitVersionVars

SpecBuild == InitBuild /\ [][NextBuild]_vars

(***************************************************************************)
(* The specification of builds within a scope: a caller opens a scope,     *)
(* builds package A under one option combination or another while the      *)
(* developer edits, and closes the scope.                                  *)
(***************************************************************************)
NextBuildRuns ==
    \/ \E f \in Files, c \in Contents : WriteFile(f, c)
    \/ scopes = <<>> /\ EnterScope
    \/ ExitScope(FALSE)
    \/ \E opts \in BuildOpts : BuildInScope(opts)

SpecBuildRuns == InitBuild /\ [][NextBuildRuns]_vars

(***************************************************************************)
(* Versions and version specs (pbt/package/manager/manager.py,             *)
(* pbt/package/package.py)                                                 *)
(***************************************************************************)
Min(S) == CHOOSE x \in S : \A y \in S : x <= y

\* parse_version: "1" and "1.2" are read as 1.0.0 and 1.2.0.
parse_version(parts) ==
    <<parts[1],
      IF Len(parts) >= 2 THEN parts[2] ELSE 0,
      IF Len(parts) >= 3 THEN parts[3] ELSE 0>>

\* semver.VersionInfo: comparison and the bump methods.
VLess(a, b) ==
    \/ a[1] < b[1]
    \/ a[1] = b[1] /\ a[2] < b[2]
    \/ a[1] = b[1] /\ a[2] = b[2] /\ a[3] < b[3]

bump_major(v) == <<v[1] + 1, 0, 0>>
bump_minor(v) == <<v[1], v[2] + 1, 0>>
bump_patch(v) == <<v[1], v[2], v[3] + 1>>

\* semver's next_version(rule)
next_version(v, rule) ==
    CASE rule = "major" -> bump_major(v)
      [] rule = "minor" -> bump_minor(v)
      [] rule = "patch" -> bump_patch(v)

\* The alternation (\^|~|>|>=|==|<|<=) of both patterns, in its order.
OpAlternatives ==
    << <<"^">>, <<"~">>, <<">">>, <<">", "=">>, <<"=", "=">>, <<"<">>, <<"<", "=">> >>

\* The string of an operator, and of an operator followed by str(version).
OpString(op) == [i \in 1..Len(op) |-> Ch(op[i])]
SpecString(op, parts) == OpString(op) \o <<Lit(parts)>>

\* " *" from position i: the position of the first token that is no blank.
RECURSIVE SkipBlanks(_, _)
SkipBlanks(s, i) ==
    IF i <= Len(s) /\ s[i].c = " " THEN SkipBlanks(s, i + 1) ELSE i

IsLit(s, i) == i <= Len(s) /\ s[i].c = "#"

\* Alternative k read at position i: the position after it, or 0.
OpAt(s, i, k) ==
    LET op == OpAlternatives[k]
    IN  IF /\ i + Len(op) - 1 <= Len(s)
           /\ \A j \in 1..Len(op) : s[i + j - 1].c = op[j]
        THEN i + Len(op)
        ELSE 0

\* (op) *(version) at position i: the first alternative, in the order of the
\* pattern, after which blanks and a version follow, as <<k, position of the
\* version>>; <<0, 0>> when there is none.
OpThenVersion(s, i) ==
    LET ks == {k \in 1..Len(OpAlternatives) :
                   OpAt(s, i, k) # 0 /\ IsLit(s, SkipBlanks(s, OpAt(s, i, k)))}
    IN  IF ks = {} THEN <<0, 0>>
        ELSE <<Min(ks), SkipBlanks(s, OpAt(s, i, Min(ks)))>>

\* The optional second part of the pattern of parse_version_spec, after the
\* first version at position j: a comma among blanks or blanks alone, then
\* an operator and a version.
SecondPart(s, j) ==
    LET b == SkipBlanks(s, j + 1)
        comma == IF b <= Len(s) /\ s[b].c = ","
                 THEN OpThenVersion(s, SkipBlanks(s, b + 1))
                 ELSE <<0, 0>>
    IN  IF comma[1] # 0 THEN comma
        ELSE IF b > j + 1 THEN OpThenVersion(s, b)
        ELSE <<0, 0>>

VersionSpec(lowerbound, upperbound, is_lowerbound_inclusive, is_upperbound_inclusive) ==
    [lowerbound |-> lowerbound, upperbound |-> upperbound,
     is_lowerbound_inclusive |-> is_lowerbound_inclusive,
     is_upperbound_inclusive |-> is_upperbound_inclusive]

NoSpec == [ok |-> FALSE, spec |-> VersionSpec(None, None, FALSE, FALSE)]

\* A variant of the operator below whose caret always bumps the major
\* number.
version_spec_of_plain_caret(op1, version1, op2, version2) ==
    LET lowerbound == parse_version(version1)
        upperbound == IF version2 # None THEN parse_version(version2) ELSE None
    IN  IF op1 = <<"^">>
        THEN IF version2 # None THEN NoSpec
             ELSE [ok |-> TRUE,
                   spec |-> VersionSpec(lowerbound,
                                bump_major(lowerbound),
                                TRUE, FALSE)]
        ELSE IF op1 = <<"~">>
        THEN IF version2 # None THEN NoSpec
             ELSE [ok |-> TRUE,
                   spec |-> VersionSpec(lowerbound,
                                IF Len(version1) = 1 THEN bump_major(lowerbound)
                                ELSE bump_minor(lowerbound),
                                TRUE, FALSE)]
        ELSE IF op1 = <<"=", "=">>
        THEN IF version2 # None THEN NoSpec
             ELSE [ok |-> TRUE,
                   spec |-> VersionSpec(lowerbound, lowerbound, TRUE, TRUE)]
        ELSE IF op1 = <<"<">> \/ op1 = <<"<", "=">>
        THEN [ok |-> TRUE,
              spec |-> VersionSpec(upperbound, lowerbound,
                                   op2 = <<">", "=">>, op1 = <<"<", "=">>)]
        ELSE [ok |-> TRUE,
              spec |-> VersionSpec(lowerbound, upperbound,
                                   op1 = <<">", "=">>, op2 = <<"<", "=">>)]

\* Lines 323-380 of parse_version_spec, on the groups of the match: op1 and
\* op2 are operators or None, version2 is a version or None.
version_spec_of(op1, version1, op2, version2) ==
    LET lowerbound == parse_version(version1)
        upperbound == IF version2 # None THEN parse_version(version2) ELSE None
    IN  IF op1 = <<"^">>
        THEN IF version2 # None THEN NoSpec
             ELSE [ok |-> TRUE,
                   spec |-> VersionSpec(lowerbound,
                                IF lowerbound[1] = 0
                                THEN IF lowerbound[2] = 0
                                     THEN bump_patch(lowerbound)
                                     ELSE bump_minor(lowerbound)
                                ELSE bump_major(lowerbound),
                                TRUE, FALSE)]
        ELSE IF op1 = <<"~">>
        THEN IF version2 # None THEN NoSpec
             ELSE [ok |-> TRUE,
                   spec |-> VersionSpec(lowerbound,
                                IF Len(version1) = 1 THEN bump_major(lowerbound)
                                ELSE bump_minor(lowerbound),
                                TRUE, FALSE)]
        ELSE IF op1 = <<"=", "=">>
        THEN IF version2 # None THEN NoSpec
             ELSE [ok |-> TRUE,
                   spec |-> VersionSpec(lowerbound, lowerbound, TRUE, TRUE)]
        ELSE IF op1 = <<"<">> \/ op1 = <<"<", "=">>
        THEN [ok |-> TRUE,
              spec |-> VersionSpec(upperbound, lowerbound,
                                   op2 = <<">", "=">>, op1 = <<"<", "=">>)]
        ELSE [ok |-> TRUE,
              spec |-> VersionSpec(lowerbound, upperbound,
                                   op1 = <<">", "=">>, op2 = <<"<", "=">>)]

\* parse_version_spec once the pattern has matched: op1 is the operator it
\* took or None, version1 is the token at position at, m2 the second part.
parse_version_spec_groups(rule, op1, at, m2) ==
    version_spec_of(op1, rule[at].v,
                    IF m2[1] # 0 THEN OpAlternatives[m2[1]] ELSE None,
                    IF m2[1] # 0 THEN rule[m2[2]].v ELSE None)

\* re.match of the pattern of parse_version_spec: the operator is optional
\* and is tried first (m1); without it the version is at position bare.  A
\* spec the pattern does not match fails the assertion.
parse_version_spec_match(rule, m1, bare) ==
    IF m1[1] # 0
    THEN parse_version_spec_groups(rule, OpAlternatives[m1[1]], m1[2],
                                   SecondPart(rule, m1[2]))
    ELSE IF IsLit(rule, bare)
    THEN parse_version_spec_groups(rule, None, bare, SecondPart(rule, bare))
    ELSE NoSpec

parse_version_spec(rule) ==
    parse_version_spec_match(rule, OpThenVersion(rule, 1), SkipBlanks(rule, 1))

\* A variant of the test below that takes both bounds to be inclusive.
spec_is_version_compatible_closed(spec, version) ==
    ~ \/ spec.lowerbound # None /\ VLess(version, spec.lowerbound)
      \/ spec.upperbound # None /\ VLess(spec.upperbound, version)

\* VersionSpec.is_version_compatible
spec_is_version_compatible(spec, version) ==
    ~ \/ /\ spec.lowerbound # None
         /\ \/ spec.is_lowerbound_inclusive /\ VLess(version, spec.lowerbound)
            \/ ~spec.is_lowerbound_inclusive /\ ~VLess(spec.lowerbound, version)
      \/ /\ spec.upperbound # None
         /\ \/ spec.is_upperbound_inclusive /\ VLess(spec.upperbound, version)
            \/ ~spec.is_upperbound_inclusive /\ ~VLess(version, spec.upperbound)

\* PkgManager.is_version_compatible, for a spec that parses.
is_version_compatible(version, version_spec) ==
    spec_is_version_compatible(parse_version_spec(version_spec).spec, version)

\* A variant of intersect that, at bounds that tie, keeps the flag of a.
intersect_tie_keeps_self(a, b) ==
    LET lbFromB == b.lowerbound # None
                     /\ (a.lowerbound = None \/ VLess(a.lowerbound, b.lowerbound))
        lb == IF lbFromB THEN b.lowerbound ELSE a.lowerbound
        lbInc == IF lbFromB THEN b.is_lowerbound_inclusive
                 ELSE a.is_lowerbound_inclusive
        ubFromB == b.upperbound # None
                     /\ (a.upperbound = None \/ VLess(b.upperbound, a.upperbound))
        ub == IF ubFromB THEN b.upperbound ELSE a.upperbound
        ubInc == IF ubFromB THEN b.is_upperbound_inclusive
                 ELSE a.is_upperbound_inclusive
    IN  [ok |-> ~(lb # None /\ ub # None /\ VLess(ub, lb)),
         spec |-> VersionSpec(lb, ub, lbInc, ubInc)]

\* VersionSpec.intersect: ok is false when it raises ValueError.
intersect(a, b) ==
    LET lbFromB == b.lowerbound # None
                     /\ (a.lowerbound = None \/ VLess(a.lowerbound, b.lowerbound))
        lb == IF lbFromB THEN b.lowerbound ELSE a.lowerbound
        lbInc == IF lbFromB THEN b.is_lowerbound_inclusive
                 ELSE IF b.lowerbound # None /\ b.lowerbound = a.lowerbound
                 THEN a.is_lowerbound_inclusive /\ b.is_lowerbound_inclusive
                 ELSE a.is_lowerbound_inclusive
        ubFromB == b.upperbound # None
                     /\ (a.upperbound = None \/ VLess(b.upperbound, a.upperbound))
        ub == IF ubFromB THEN b.upperbound ELSE a.upperbound
        ubInc == IF ubFromB THEN b.is_upperbound_inclusive
                 ELSE IF b.upperbound # None /\ b.upperbound = a.upperbound
                 THEN a.is_upperbound_inclusive /\ b.is_upperbound_inclusive
                 ELSE a.is_upperbound_inclusive
    IN  [ok |-> ~(lb # None /\ ub # None /\ VLess(ub, lb)),
         spec |-> VersionSpec(lb, ub, lbInc, ubInc)]

\* A variant of update_version that leaves the lower bound's flag as it
\* was.
update_version_keep_flag(spec, version) ==
    IF ~spec_is_version_compatible(spec, version)
    THEN [raised |-> TRUE, none |-> FALSE, spec |-> spec]
    ELSE IF spec.lowerbound = None \/ VLess(spec.lowerbound, version)
    THEN [raised |-> FALSE, none |-> FALSE,
          spec |-> VersionSpec(version, spec.upperbound,
                               spec.is_lowerbound_inclusive,
                               spec.is_upperbound_inclusive)]
    ELSE [raised |-> FALSE, none |-> TRUE, spec |-> spec]

\* VersionSpec.update_version (dependency_specification/version.py):
\* raised when VersionIncompatibleToSpecError is raised, none when None is
\* returned, and the spec returned otherwise.
update_version(spec, version) ==
    IF ~spec_is_version_compatible(spec, version)
    THEN [raised |-> TRUE, none |-> FALSE, spec |-> spec]
    ELSE IF spec.lowerbound = None \/ VLess(spec.lowerbound, version)
    THEN [raised |-> FALSE, none |-> FALSE,
          spec |-> VersionSpec(version, spec.upperbound, TRUE,
                               spec.is_upperbound_inclusive)]
    ELSE [raised |-> FALSE, none |-> TRUE, spec |-> spec]

\* update_version_spec: re.match of (\^|~|>|>=|==|<|<=) *([^ ]+), which takes
\* the first alternative after which blanks and one more character follow;
\* the result is that operator and str(version).  ok is false when the
\* pattern does not match and NotImplementedError is raised.
update_version_spec(version_spec, version) ==
    LET ks == {k \in 1..Len(OpAlternatives) :
                   /\ OpAt(version_spec, 1, k) # 0
                   /\ SkipBlanks(version_spec, OpAt(version_spec, 1, k))
                          <= Len(version_spec)}
    IN  IF ks = {} THEN [ok |-> FALSE, version_spec |-> version_spec]
        ELSE [ok |-> TRUE,
              version_spec |-> SpecString(OpAlternatives[Min(ks)], version)]


(***************************************************************************)
(* find_latest_specs, enforce_version_consistency                          *)
(***************************************************************************)
\* The order in which the dictionaries of the pipeline are iterated: the
\* packages in the order discover found them, a package's entries in the
\* order of its manifest.
PkgSeq == <<"A", "B", "C">>
NameSeq == <<"A", "B", "C", "x">>

RECURSIVE Flatten(_)
Flatten(lst) == IF lst = <<>> THEN <<>> ELSE Head(lst) \o Flatten(Tail(lst))

\* Lines 246-286 of find_latest_specs from spec i on; constraints maps a
\* constraint to the pair it holds.  ok is false when ValueError is raised
\* or a spec does not parse.
RECURSIVE find_latest_loop(_, _, _, _)

\* A variant of the step below that takes two specs for the same only when
\* their strings are the same.
find_latest_next_textual(specs, i, constraints, mode, parsed) ==
    LET spec == specs[i]
        version_spec == parsed.spec
        prev == constraints[spec.constraint].vs
        has_recent_version ==
            \/ VLess(prev.lowerbound, version_spec.lowerbound)
            \/ /\ version_spec.upperbound # None
               /\ \/ prev.upperbound = None
                  \/ VLess(version_spec.upperbound, prev.upperbound)
        put == SetKey(constraints, spec.constraint,
                      [vs |-> version_spec, spec |-> spec])
    IN  IF ~parsed.ok THEN [ok |-> FALSE, constraints |-> constraints]
        ELSE IF spec.constraint \notin DOMAIN constraints
        THEN find_latest_loop(specs, i + 1, put, mode)
        ELSE IF spec = constraints[spec.constraint].spec
        THEN find_latest_loop(specs, i + 1, constraints, mode)
        ELSE IF version_spec.lowerbound = None \/ prev.lowerbound = None
        THEN [ok |-> FALSE, constraints |-> constraints]
        ELSE IF mode = "strict"
        THEN [ok |-> FALSE, constraints |-> constraints]
        ELSE IF mode = "compatible" /\ ~intersect(version_spec, prev).ok
        THEN [ok |-> FALSE, constraints |-> constraints]
        ELSE find_latest_loop(specs, i + 1,
                 IF has_recent_version THEN put ELSE constraints, mode)

\* Lines 248-286 for spec i, parsed being what parse_version_spec gives.
find_latest_next(specs, i, constraints, mode, parsed) ==
    LET spec == specs[i]
        version_spec == parsed.spec
        prev == constraints[spec.constraint].vs
        has_recent_version ==
            \/ VLess(prev.lowerbound, version_spec.lowerbound)
            \/ /\ version_spec.upperbound # None
               /\ \/ prev.upperbound = None
                  \/ VLess(version_spec.upperbound, prev.upperbound)
        put == SetKey(constraints, spec.constraint,
                      [vs |-> version_spec, spec |-> spec])
    IN  IF ~parsed.ok THEN [ok |-> FALSE, constraints |-> constraints]
        ELSE IF spec.constraint \notin DOMAIN constraints
        THEN find_latest_loop(specs, i + 1, put, mode)
        ELSE IF version_spec = prev
        THEN find_latest_loop(specs, i + 1, constraints, mode)
        ELSE IF version_spec.lowerbound = None \/ prev.lowerbound = None
        THEN [ok |-> FALSE, constraints |-> constraints]
        ELSE IF mode = "strict"
        THEN [ok |-> FALSE, constraints |-> constraints]
        ELSE IF mode = "compatible" /\ ~intersect(version_spec, prev).ok
        THEN [ok |-> FALSE, constraints |-> constraints]
        ELSE find_latest_loop(specs, i + 1,
                 IF has_recent_version THEN put ELSE constraints, mode)

find_latest_loop(specs, i, constraints, mode) ==
    IF i > Len(specs) THEN [ok |-> TRUE, constraints |-> constraints]
    ELSE find_latest_next(specs, i, constraints, mode,
                          parse_version_spec(specs[i].version_spec))

\* Line 289: the spec kept for each constraint, sorted by constraint; every
\* constraint of the model is the same, so at most one spec is kept.
find_latest_sorted(r) ==
    [ok |-> r.ok,
     specs |-> IF r.ok /\ "" \in DOMAIN r.constraints
               THEN <<r.constraints[""].spec>> ELSE <<>>]

\* find_latest_specs(lst_specs, mode); the mode None is "no_check".
find_latest_specs(lst_specs, mode) ==
    find_latest_sorted(find_latest_loop(Flatten(lst_specs), 1, [c \in {} |-> 0], mode))

\* The sequence of f[k] for the keys k of f, in the order of seq.
RECURSIVE ValuesInOrder(_, _, _)
ValuesInOrder(f, seq, skip) ==
    IF seq = <<>> THEN <<>>
    ELSE (IF Head(seq) \in DOMAIN f /\ Head(seq) \notin skip
          THEN <<f[Head(seq)]>> ELSE <<>>)
         \o ValuesInOrder(f, Tail(seq), skip)

\* The third-party nodes in the order graph.iter_pkg() yields them.
ThirdPartySeq == <<"x">>

\* Lines 70-99 of enforce_version_consistency for the third-party packages
\* from i on: thirdparty_pkgs and the invert_dependencies afterwards.  ok is
\* false when ValueError is raised.
RECURSIVE enforce_thirdparties(_, _, _, _, _)

\* Lines 89-99 for third-party package i, r being what find_latest_specs gave.
enforce_thirdparty(inv, i, thirdparty_pkgs, thirdparty_mode, freeze_packages, r) ==
    LET t == ThirdPartySeq[i]
    IN  IF ~r.ok
        THEN [ok |-> FALSE, inv |-> inv, thirdparty_pkgs |-> thirdparty_pkgs]
        ELSE enforce_thirdparties(
                 [inv EXCEPT ![t] =
                     [k \in DOMAIN inv[t] |->
                         IF k \in freeze_packages THEN inv[t][k] ELSE r.specs]],
                 i + 1, SetKey(thirdparty_pkgs, t, r.specs),
                 thirdparty_mode, freeze_packages)

\* A variant of the loop below that hands the specs of every package to
\* find_latest_specs, the frozen ones included.
enforce_thirdparties_all(inv, i, thirdparty_pkgs, thirdparty_mode, freeze_packages) ==
    IF i > Len(ThirdPartySeq)
    THEN [ok |-> TRUE, inv |-> inv, thirdparty_pkgs |-> thirdparty_pkgs]
    ELSE IF ThirdPartySeq[i] \notin DOMAIN inv
    THEN enforce_thirdparties(inv, i + 1, thirdparty_pkgs,
                              thirdparty_mode, freeze_packages)
    ELSE enforce_thirdparty(inv, i, thirdparty_pkgs, thirdparty_mode,
             freeze_packages,
             find_latest_specs(ValuesInOrder(inv[ThirdPartySeq[i]], PkgSeq, {}),
                               thirdparty_mode))

enforce_thirdparties(inv, i, thirdparty_pkgs, thirdparty_mode, freeze_packages) ==
    IF i > Len(ThirdPartySeq)
    THEN [ok |-> TRUE, inv |-> inv, thirdparty_pkgs |-> thirdparty_pkgs]
    ELSE IF ThirdPartySeq[i] \notin DOMAIN inv
    THEN enforce_thirdparties(inv, i + 1, thirdparty_pkgs,
                              thirdparty_mode, freeze_packages)
    ELSE enforce_thirdparty(inv, i, thirdparty_pkgs, thirdparty_mode,
             freeze_packages,
             find_latest_specs(ValuesInOrder(inv[ThirdPartySeq[i]], PkgSeq,
                                             freeze_packages),
                               thirdparty_mode))

\* A variant of the step below that assigns the updated spec whether or not
\* the version satisfies the spec.
enforce_own_spec_always(version_spec, dep_version, mode, parsed, compatible, u) ==
    IF mode = "no_check" \/ ~parsed.ok
    THEN [ok |-> FALSE, version_spec |-> version_spec, modified |-> FALSE]
    ELSE [ok |-> u.ok, version_spec |-> u.version_spec, modified |-> TRUE]

\* Lines 118-137 for one spec of an entry on an owned package: parsed is what
\* parse_version_spec gives for it, compatible what is_version_compatible
\* gives, u what update_version_spec gives.  In COMPATIBLE mode a spec the
\* version does not satisfy is rewritten; in STRICT mode a spec whose lower
\* bound is not the version.  ok is false when the parser or
\* update_version_spec raises, or when the mode is neither (the assertion of
\* line 128).
enforce_own_spec(version_spec, dep_version, mode, parsed, compatible, u) ==
    IF mode = "no_check" \/ ~parsed.ok
    THEN [ok |-> FALSE, version_spec |-> version_spec, modified |-> FALSE]
    ELSE IF (IF mode = "compatible" THEN compatible
             ELSE parsed.spec.lowerbound = dep_version)
    THEN [ok |-> TRUE, version_spec |-> version_spec, modified |-> FALSE]
    ELSE [ok |-> u.ok, version_spec |-> u.version_spec, modified |-> TRUE]

\* Lines 119-126 and 129-137: the specs of one entry, from spec i on.
RECURSIVE enforce_own_specs(_, _, _, _)

enforce_own_specs_next(specs, i, dep_version, mode, r) ==
    LET rest == enforce_own_specs([specs EXCEPT ![i].version_spec = r.version_spec],
                                  i + 1, dep_version, mode)
    IN  IF ~r.ok THEN [ok |-> FALSE, specs |-> specs, modified |-> r.modified]
        ELSE [ok |-> rest.ok, specs |-> rest.specs,
              modified |-> r.modified \/ rest.modified]

enforce_own_specs(specs, i, dep_version, mode) ==
    IF i > Len(specs) THEN [ok |-> TRUE, specs |-> specs, modified |-> FALSE]
    ELSE enforce_own_specs_next(specs, i, dep_version, mode,
             enforce_own_spec(specs[i].version_spec, dep_version, mode,
                 parse_version_spec(specs[i].version_spec),
                 is_version_compatible(dep_version, specs[i].version_spec),
                 update_version_spec(specs[i].version_spec, dep_version)))

\* Lines 110-140: the entries of one dictionary (dependencies or
\* dev_dependencies) from name i of NameSeq on.
RECURSIVE enforce_deps(_, _, _, _, _)

\* Lines 115-137 for entry i, on an owned package: own is what the loop over
\* its specs gives.
enforce_own_dep(deps, i, P, thirdparty_pkgs, mode, own) ==
    LET deps1 == [deps EXCEPT ![NameSeq[i]] = own.specs]
        rest == enforce_deps(deps1, i + 1, P, thirdparty_pkgs, mode)
    IN  IF ~own.ok
        THEN [ok |-> FALSE, deps |-> deps1, modified |-> own.modified]
        ELSE [ok |-> rest.ok, deps |-> rest.deps,
              modified |-> own.modified \/ rest.modified]

\* Lines 138-140 for entry i, on a third-party package.
enforce_thirdparty_dep(deps, i, P, thirdparty_pkgs, mode) ==
    LET dep == NameSeq[i]
        rest == enforce_deps([deps EXCEPT ![dep] = thirdparty_pkgs[dep]],
                             i + 1, P, thirdparty_pkgs, mode)
    IN  [ok |-> rest.ok, deps |-> rest.deps,
         modified |-> deps[dep] # thirdparty_pkgs[dep] \/ rest.modified]

enforce_deps(deps, i, P, thirdparty_pkgs, mode) ==
    IF i > Len(NameSeq) THEN [ok |-> TRUE, deps |-> deps, modified |-> FALSE]
    ELSE IF NameSeq[i] \notin DOMAIN deps
    THEN enforce_deps(deps, i + 1, P, thirdparty_pkgs, mode)
    ELSE IF NameSeq[i] \in DOMAIN P
    THEN enforce_own_dep(deps, i, P, thirdparty_pkgs, mode,
             enforce_own_specs(deps[NameSeq[i]], 1,
                               parse_version(P[NameSeq[i]].version), mode))
    ELSE enforce_thirdparty_dep(deps, i, P, thirdparty_pkgs, mode)

\* Lines 104-143 from package i of PkgSeq on: the packages afterwards, the
\* packages a spec was assigned in (rewritten) and the packages manager.save
\* was called for (saved).
RECURSIVE enforce_pkgs(_, _, _, _, _)

\* Lines 107-143 for package i: d1 and d2 are what the loops over its
\* dependencies and its dev_dependencies give.
enforce_pkg(P, i, thirdparty_pkgs, mode, freeze_packages, d1, d2) ==
    LET name == PkgSeq[i]
        P2 == [P EXCEPT ![name].dependencies = d1.deps,
                        ![name].dev_dependencies = IF d1.ok THEN d2.deps ELSE @]
        is_modified_flag == d1.modified \/ (d1.ok /\ d2.modified)
        rest == enforce_pkgs(P2, i + 1, thirdparty_pkgs, mode, freeze_packages)
    IN  IF ~d1.ok \/ ~d2.ok
        THEN [ok |-> FALSE, pkgs |-> P2, saved |-> {},
              rewritten |-> IF is_modified_flag THEN {name} ELSE {}]
        ELSE [ok |-> rest.ok, pkgs |-> rest.pkgs,
              saved |-> rest.saved \cup (IF is_modified_flag THEN {name} ELSE {}),
              rewritten |-> rest.rewritten
                            \cup (IF is_modified_flag THEN {name} ELSE {})]

enforce_pkgs(P, i, thirdparty_pkgs, mode, freeze_packages) ==
    IF i > Len(PkgSeq)
    THEN [ok |-> TRUE, pkgs |-> P, saved |-> {}, rewritten |-> {}]
    ELSE IF PkgSeq[i] \in freeze_packages
    THEN enforce_pkgs(P, i + 1, thirdparty_pkgs, mode, freeze_packages)
    ELSE enforce_pkg(P, i, thirdparty_pkgs, mode, freeze_packages,
             enforce_deps(P[PkgSeq[i]].dependencies, 1, P, thirdparty_pkgs, mode),
             enforce_deps(P[PkgSeq[i]].dev_dependencies, 1, P, thirdparty_pkgs, mode))

\* The outcome of a pass whose third-party loop gave t and whose loop over
\* the packages gave r.
enforce_result(t, r) ==
    [ok |-> r.ok, pkgs |-> r.pkgs, inv |-> t.inv,
     saved |-> r.saved, rewritten |-> r.rewritten,
     conflict |-> FALSE, thirdparty_pkgs |-> t.thirdparty_pkgs]

\* A variant of the step below that, when the third-party loop raised,
\* merges without checking, updates the packages and raises only then.
enforce_own_late(P, mode, freeze_packages, t) ==
    IF ~t.ok
    THEN [enforce_result(t,
              enforce_pkgs(P, 1,
                  enforce_thirdparties(t.inv, 1, [n \in {} |-> <<>>], "no_check",
                                       freeze_packages).thirdparty_pkgs,
                  mode, freeze_packages))
          EXCEPT !.ok = FALSE, !.conflict = TRUE]
    ELSE enforce_result(t, enforce_pkgs(P, 1, t.thirdparty_pkgs, mode,
                                        freeze_packages))

\* Lines 101-143 after the third-party loop gave t.
enforce_own(P, mode, freeze_packages, t) ==
    IF ~t.ok
    THEN [ok |-> FALSE, pkgs |-> P, inv |-> t.inv, saved |-> {}, rewritten |-> {},
          conflict |-> TRUE, thirdparty_pkgs |-> t.thirdparty_pkgs]
    ELSE enforce_result(t, enforce_pkgs(P, 1, t.thirdparty_pkgs, mode,
                                        freeze_packages))

\* BTPipeline.enforce_version_consistency(mode, thirdparty_mode,
\* freeze_packages): the packages and the invert_dependencies afterwards;
\* ok is false when the pass raises, conflict is true when it is the
\* third-party loop that raised, thirdparty_pkgs is what that loop computed.
enforce_version_consistency(P, g, mode, thirdparty_mode, freeze_packages) ==
    enforce_own(P, mode, freeze_packages,
                enforce_thirdparties(g.inv, 1, [n \in {} |-> <<>>],
                                     thirdparty_mode, freeze_packages))

(***************************************************************************)
(* publish (pbt/package/pipeline.py), RemoteDiff (pbt/diff.py)             *)
(***************************************************************************)
\* A variant of from_pkg that does not compare the two versions' order.
from_pkg_unordered(version, pkg_hash, remote_version, remote_version_hash) ==
    IF version # remote_version
    THEN [ok |-> TRUE, is_version_diff |-> TRUE, is_content_changed |-> TRUE]
    ELSE [ok |-> TRUE, is_version_diff |-> FALSE,
          is_content_changed |-> pkg_hash # remote_version_hash]

\* RemoteDiff.from_pkg on the package's version and the hash
\* manager.compute_pkg_hash gives, against the registry's answer.  ok is
\* false when it raises because the local version is the older one.
from_pkg(version, pkg_hash, remote_version, remote_version_hash) ==
    IF version # remote_version
    THEN [ok |-> ~(remote_version # None /\ VLess(version, remote_version)),
          is_version_diff |-> TRUE, is_content_changed |-> TRUE]
    ELSE [ok |-> TRUE, is_version_diff |-> FALSE,
          is_content_changed |-> pkg_hash # remote_version_hash]

\* The keys of a dict after the keys of t are assigned in turn: a key that is
\* already there keeps its place.
RECURSIVE AddKeys(_, _)
AddKeys(s, t) ==
    IF t = <<>> THEN s
    ELSE AddKeys(IF \E j \in 1..Len(s) : s[j] = Head(t) THEN s
                 ELSE Append(s, Head(t)),
                 Tail(t))

\* The names of S in the order of seq.
InOrder(S, seq) == SelectSeq(seq, LAMBDA n : n \in S)

\* Lines 220-226: the keys of publishing_pkgs, in insertion order, from the
\* i-th given name on.
RECURSIVE publishing_pkgs(_, _, _, _, _)
publishing_pkgs(pkg_names, i, P, g, acc) ==
    IF i > Len(pkg_names) THEN acc
    ELSE publishing_pkgs(pkg_names, i + 1, P, g,
             AddKeys(acc, <<pkg_names[i]>>
                          \o InOrder(dependencies(g, pkg_names[i], FALSE)
                                         \cap DOMAIN P, PkgSeq)))

\* Lines 228-244: the loop that compares each candidate with the registry,
\* from candidate i on.  ok is false when from_pkg raises.
RECURSIVE publish_check(_, _, _, _, _)
publish_check(cands, i, P, reg, hashes) ==
    IF i > Len(cands)
    THEN [ok |-> TRUE, has_error |-> FALSE, diffs |-> [n \in {} |-> 0]]
    ELSE LET name == cands[i]
             diff == from_pkg(P[name].version, hashes[name],
                              reg[name].version, reg[name].hash)
             rest == publish_check(cands, i + 1, P, reg, hashes)
         IN  IF ~diff.ok
             THEN [ok |-> FALSE, has_error |-> FALSE, diffs |-> [n \in {} |-> 0]]
             ELSE [ok |-> rest.ok,
                   has_error |-> rest.has_error
                       \/ (~diff.is_version_diff /\ diff.is_content_changed),
                   diffs |-> SetKey(rest.diffs, name, diff)]

\* A publish that publishes each candidate as soon as it has been compared.
RECURSIVE publish_eager_loop(_, _, _, _, _)
publish_eager_loop(cands, i, P, reg, hashes) ==
    IF i > Len(cands) THEN [raised |-> FALSE, calls |-> <<>>]
    ELSE LET name == cands[i]
             diff == from_pkg(P[name].version, hashes[name],
                              reg[name].version, reg[name].hash)
             rest == publish_eager_loop(cands, i + 1, P, reg, hashes)
         IN  IF ~diff.ok \/ (~diff.is_version_diff /\ diff.is_content_changed)
             THEN [raised |-> TRUE, calls |-> <<>>]
             ELSE [raised |-> rest.raised,
                   calls |-> (IF diff.is_version_diff THEN <<name>> ELSE <<>>)
                             \o rest.calls]

publish_eager(pkg_names, P, g, reg, hashes) ==
    LET cands == publishing_pkgs(pkg_names, 1, P, g, <<>>)
        r == publish_eager_loop(cands, 1, P, reg, hashes)
    IN  [raised |-> r.raised, calls |-> r.calls, candidates |-> cands]

\* A publish that publishes the candidates in the order it gathered them.
publish_unsorted(pkg_names, P, g, reg, hashes) ==
    LET cands == publishing_pkgs(pkg_names, 1, P, g, <<>>)
        chk == publish_check(cands, 1, P, reg, hashes)
    IN  IF ~chk.ok \/ chk.has_error
        THEN [raised |-> TRUE, calls |-> <<>>, candidates |-> cands]
        ELSE [raised |-> FALSE,
              calls |-> SelectSeq(cands, LAMBDA n : chk.diffs[n].is_version_diff),
              candidates |-> cands]

\* BTPipeline.publish(pkg_names, registries): whether it raises, and the
\* packages manager.publish is called for, in the order of the calls.
publish(pkg_names, P, g, reg, hashes) ==
    LET cands == publishing_pkgs(pkg_names, 1, P, g, <<>>)
        chk == publish_check(cands, 1, P, reg, hashes)
        sorted_names == InOrder({cands[j] : j \in 1..Len(cands)}, PkgSeq)
    IN  IF ~chk.ok \/ chk.has_error
        THEN [raised |-> TRUE, calls |-> <<>>, candidates |-> cands]
        ELSE [raised |-> FALSE,
              calls |-> SelectSeq(sorted_names,
                                  LAMBDA n : chk.diffs[n].is_version_diff),
              candidates |-> cands]

(***************************************************************************)
(* The graph specification: manifests are written, the graph is built      *)
(* once, dependencies are queried.                                         *)
(***************************************************************************)
DeclaredCount(P) ==
    LET pairs == (DOMAIN P) \X Names
        n(S) == Cardinality(S)
    IN  n({e \in pairs : e[2] \in DOMAIN P[e[1]].dependencies})
        + n({e \in pairs : e[2] \in DOMAIN P[e[1]].dev_dependencies})

\* A manifest declares dependency q of package p, as a prod or a dev dependency.
DeclareDependency(p, q, dev) ==
    /\ fromPkgs = "none"
    /\ DeclaredCount(pkgs) < MaxDeps
    /\ IF dev
       THEN /\ q \notin DOMAIN pkgs[p].dev_dependencies
            /\ pkgs' = [pkgs EXCEPT ![p].dev_dependencies =
                            [d \in DOMAIN @ \cup {q} |-> DefaultSpecs]]
       ELSE /\ q \notin DOMAIN pkgs[p].dependencies
            /\ pkgs' = [pkgs EXCEPT ![p].dependencies =
                            [d \in DOMAIN @ \cup {q} |-> DefaultSpecs]]
    /\ UNCHANGED <<pipelineVars, versionVars, graph, fromPkgs, depQuery, cacheVars, treeVars, diffVars, buildVars,
                   enforceVars, publishVars>>

\* graph = PkgGraph.from_pkgs(pkgs)
FromPkgs ==
    /\ fromPkgs = "none"
    /\ LET r == from_pkgs(pkgs)
       IN  /\ fromPkgs' = IF r.ok THEN "ok" ELSE "cycle"
           /\ graph' = r.g
    /\ UNCHANGED <<pipelineVars, versionVars, pkgs, depQuery, cacheVars, treeVars, diffVars, buildVars,
                   enforceVars, publishVars>>

\* graph.dependencies(pkg_name, include_dev)
Dependencies(pkg_name, include_dev) ==
    /\ fromPkgs = "ok"
    /\ depQuery' = [pkg |-> pkg_name, include_dev |-> include_dev,
                    result |-> dependencies(graph, pkg_name, include_dev)]
    /\ UNCHANGED <<pipelineVars, versionVars, pkgs, graph, fromPkgs, cacheVars, treeVars, diffVars, buildVars,
                   enforceVars, publishVars>>

NextGraph ==
    \/ \E p \in Owned, q \in Names, dev \in BOOLEAN : DeclareDependency(p, q, dev)
    \/ FromPkgs
    \/ \E p \in Owned, dev \in BOOLEAN : Dependencies(p, dev)

InitGraph ==
    /\ InitGraphVars /\ InitCacheVars /\ InitTreeVars /\ InitDiffVars
    /\ InitBuildVars /\ InitEnforceVars /\ InitPublishVars /\ InitPipelineVars /\ InitVersionVars

SpecGraph == InitGraph /\ [][NextGraph]_vars

(***************************************************************************)
(* Poetry.mask and Maturin.mask_dependencies: context managers that        *)
(* rewrite pyproject.toml for the time of a with block                     *)
(***************************************************************************)
MaskManagers == {"poetry", "maturin"}

\* The manifests a package may have, the lists a scope may be given, and
\* the places where the file system may refuse an operation before the yield.
MaskManifests ==
    {ManifestFile(d, v, FALSE) : d \in SUBSET {"B", "x"}, v \in SUBSET {"B"}}
MaskSkipDeps == SUBSET {"B", "x"}
MaskAdditionalDeps == SUBSET {"x", "y"}
MaskFailures == {"none", "rename", "write"}

\* The document after the loops over skip_deps and additional_deps.  Poetry
\* removes a skipped name from dependencies or else from dev-dependencies and
\* adds the additional names the dependencies do not have by then; maturin
\* removes it from both lists and adds the names the dependencies read from
\* the file did not have.
mask_doc(manager, file, skip_deps, additional_deps) ==
    IF manager = "poetry"
    THEN ManifestFile((file.dependencies \ skip_deps) \cup additional_deps,
                      file.dev_dependencies \ (skip_deps \ file.dependencies),
                      TRUE)
    ELSE ManifestFile((file.dependencies \ skip_deps)
                          \cup (additional_deps \ file.dependencies),
                      file.dev_dependencies \ skip_deps,
                      TRUE)

\* The code up to the yield.  When it raises before the yield, the except and
\* the finally clauses run at once and the scope is never open.
mask_enter(manager, file, cached, failed, skip_deps, additional_deps, disable, fail) ==
    LET doc == mask_doc(manager, file, skip_deps, additional_deps)
    IN  IF disable \/ Cardinality(skip_deps) + Cardinality(additional_deps) = 0
        THEN [open |-> TRUE, active |-> FALSE, file |-> file, cached |-> cached,
              failed |-> failed, doc |-> NoFile, ops |-> {}]
        ELSE IF fail = "rename"
        THEN \* os.rename raises; the rename of the finally clause finds no
             \* file in the cache directory unless an older one is there
             [open |-> FALSE, active |-> TRUE,
              file |-> IF cached.exists THEN cached ELSE file,
              cached |-> NoFile, failed |-> doc, doc |-> doc,
              ops |-> IF cached.exists THEN {"rename"} ELSE {}]
        ELSE IF fail = "write"
        THEN \* the file is renamed away, writing the new one raises
             [open |-> FALSE, active |-> TRUE, file |-> file, cached |-> NoFile,
              failed |-> doc, doc |-> doc, ops |-> {"rename", "write"}]
        ELSE [open |-> TRUE, active |-> TRUE, file |-> doc, cached |-> file,
              failed |-> failed, doc |-> doc, ops |-> {"rename", "write"}]

\* A variant of mask_exit whose restoring rename is not in a finally clause.
mask_exit_no_finally(scope, file, cached, failed, raised) ==
    IF ~scope.active
    THEN [file |-> file, cached |-> cached, failed |-> failed]
    ELSE IF raised
    THEN [file |-> file, cached |-> cached, failed |-> scope.doc]
    ELSE [file |-> cached, cached |-> NoFile, failed |-> failed]

\* The code after the yield: except writes pyproject.failed.toml when the body
\* raised, finally renames the cached file back.
mask_exit(scope, file, cached, failed, raised) ==
    IF ~scope.active
    THEN [file |-> file, cached |-> cached, failed |-> failed]
    ELSE [file |-> cached, cached |-> NoFile,
          failed |-> IF raised THEN scope.doc ELSE failed]

\* with self.mask(pkg, skip_deps, additional_deps, disable): up to the body.
MaskEnter(manager, skip_deps, additional_deps, disable, fail) ==
    /\ ~maskScope.open
    /\ \E r \in {mask_enter(manager, manifest, cachedManifest, failedManifest,
                            skip_deps, additional_deps, disable, fail)} :
           /\ manifest' = r.file
           /\ cachedManifest' = r.cached
           /\ failedManifest' = r.failed
           /\ maskScope' =
                  [open |-> r.open, active |-> r.active,
                   exit |-> IF r.open THEN "none" ELSE "raise",
                   manager |-> manager, skip_deps |-> skip_deps,
                   additional_deps |-> additional_deps, disable |-> disable,
                   original |-> manifest, doc |-> r.doc, ops |-> r.ops]
    /\ UNCHANGED <<lastInstall, lastDiscover, graphVars, cacheVars, treeVars,
                   diffVars, buildVars, enforceVars, publishVars, versionVars>>

\* The body of the with block returns or raises.
MaskExit(raised) ==
    /\ maskScope.open
    /\ \E r \in {mask_exit(maskScope, manifest, cachedManifest, failedManifest,
                           raised)} :
           /\ manifest' = r.file
           /\ cachedManifest' = r.cached
           /\ failedManifest' = r.failed
    /\ maskScope' = [maskScope EXCEPT
                        !.open = FALSE,
                        !.exit = IF raised THEN "raise" ELSE "return",
                        !.ops = IF maskScope.active THEN @ \cup {"rename"} ELSE @]
    /\ UNCHANGED <<lastInstall, lastDiscover, graphVars, cacheVars, treeVars,
                   diffVars, buildVars, enforceVars, publishVars, versionVars>>

NextMask ==
    \/ \E manager \in MaskManagers, skip_deps \in MaskSkipDeps,
          additional_deps \in MaskAdditionalDeps, disable \in BOOLEAN,
          fail \in MaskFailures :
           MaskEnter(manager, skip_deps, additional_deps, disable, fail)
    \/ \E raised \in BOOLEAN : MaskExit(raised)

InitMask ==
    /\ manifest \in MaskManifests
    /\ cachedManifest = NoFile /\ failedManifest = NoFile /\ maskScope = NoScope
    /\ lastInstall = NoInstall /\ lastDiscover = NoDiscover
    /\ InitGraphVars /\ InitCacheVars /\ InitTreeVars /\ InitDiffVars
    /\ InitBuildVars /\ InitEnforceVars /\ InitPublishVars /\ InitVersionVars

SpecMask == InitMask /\ [][NextMask]_vars

(***************************************************************************)
(* BTPipeline.discover                                                     *)
(***************************************************************************)
\* What manager.load may return for a package directory: the name it reads
\* and the package, whose dependencies are among A, B and x.
LoadedDeps ==
    {[d \in S |-> DefaultSpecs] : S \in {{}, {"A"}, {"B"}, {"x"}, {"B", "x"}}}

LoadedPackages ==
    {[name |-> n, pkg |-> Package(<<1, 0, 0>>, deps, NoDeps)] :
        n \in {"A", "B"}, deps \in LoadedDeps}
    \cup {[name |-> "A", pkg |-> Package(<<1, 0, 0>>, NoDeps, deps)] :
              deps \in {[d \in {"B"} |-> DefaultSpecs]}}

\* The directories found, in the order the managers yield them.
LoadedLists ==
    UNION {[1..n -> LoadedPackages] : n \in 0..MaxLoaded}

\* The loop of discover: pkgs[pkg.name] = pkg for each loaded package,
\* RuntimeError at a name that is in pkgs already.
RECURSIVE load_all(_, _, _)
load_all(loaded, i, acc) ==
    IF i > Len(loaded) THEN [ok |-> TRUE, pkgs |-> acc]
    ELSE IF loaded[i].name \in DOMAIN acc THEN [ok |-> FALSE, pkgs |-> acc]
    ELSE load_all(loaded, i + 1, SetKey(acc, loaded[i].name, loaded[i].pkg))

\* A variant of discover that assigns self.pkgs before it builds the graph.
discover_pkgs_first(loaded, P, g) ==
    LET l == load_all(loaded, 1, <<>>)
        r == from_pkgs(l.pkgs)
    IN  IF ~l.ok THEN [outcome |-> "duplicate", pkgs |-> P, graph |-> g]
        ELSE IF ~r.ok THEN [outcome |-> "cycle", pkgs |-> l.pkgs, graph |-> g]
        ELSE [outcome |-> "ok", pkgs |-> l.pkgs, graph |-> r.g]

\* BTPipeline.discover: the outcome, and self.pkgs and self.graph after it.
discover(loaded, P, g) ==
    LET l == load_all(loaded, 1, <<>>)
        r == from_pkgs(l.pkgs)
    IN  IF ~l.ok THEN [outcome |-> "duplicate", pkgs |-> P, graph |-> g]
        ELSE IF ~r.ok THEN [outcome |-> "cycle", pkgs |-> P, graph |-> g]
        ELSE [outcome |-> "ok", pkgs |-> l.pkgs, graph |-> r.g]

\* pl.discover(), the managers finding the directories of loaded.
Discover(loaded) ==
    /\ \E r \in {discover(loaded, pkgs, graph)} :
           /\ pkgs' = r.pkgs
           /\ graph' = r.graph
           /\ fromPkgs' = IF r.outcome = "duplicate" THEN fromPkgs ELSE r.outcome
           /\ lastDiscover' =
                  [called |-> TRUE, loaded |-> loaded, outcome |-> r.outcome,
                   pkgs |-> pkgs, graph |-> graph]
    /\ UNCHANGED <<lastInstall, maskVars, depQuery, cacheVars, treeVars, diffVars,
                   buildVars, enforceVars, publishVars, versionVars>>

NextDiscover == \E loaded \in LoadedLists : Discover(loaded)

\* BTPipeline.__init__: self.graph = PkgGraph(), self.pkgs = {}.
InitDiscover ==
    /\ pkgs = <<>> /\ graph = EmptyGraph /\ fromPkgs = "none" /\ depQuery = NoQuery
    /\ InitCacheVars /\ InitTreeVars /\ InitDiffVars /\ InitBuildVars
    /\ InitEnforceVars /\ InitPublishVars /\ InitPipelineVars /\ InitVersionVars

SpecDiscover == InitDiscover /\ [][NextDiscover]_vars

(***************************************************************************)
(* BTPipeline.install                                                      *)
(***************************************************************************)
\* What cfg.use_prebuilt_binaries may hold.
PrebuiltConfigs == {{}, {"B"}, {"C"}}

\* The package lists install is asked for.
InstallRequests == {<<"A">>, <<"B">>, <<"B", "A">>}

\* The calls made for one requested package: manager.install with the names
\* of skip_deps and the keys of additional_deps, then manager.
\* install_dependency once per dep of the loop over deps.
install_one(name, include_dev, P, g, prebuilt) ==
    LET deps == dependencies(g, name, include_dev)
        skip_deps == {d \in deps : d \in DOMAIN P /\ d \notin prebuilt}
        additional_deps ==
            {d \in deps :
                \/ /\ d \notin DOMAIN P
                   /\ d \notin DOMAIN P[name].dependencies
                   /\ d \notin DOMAIN P[name].dev_dependencies
                \/ /\ d \in DOMAIN P
                   /\ d \notin DOMAIN P[name].dependencies
                   /\ d \notin DOMAIN P[name].dev_dependencies
                   /\ d \in prebuilt}
        local == InOrder({d \in deps : d \in DOMAIN P /\ d \notin prebuilt}, PkgSeq)
    IN  << [op |-> "install", pkg |-> name, dep |-> "",
            skip_deps |-> skip_deps, additional_deps |-> additional_deps] >>
        \o [j \in 1..Len(local) |->
               [op |-> "install_dependency", pkg |-> name, dep |-> local[j],
                skip_deps |-> DepNames(P[local[j]]), additional_deps |-> {}]]

\* The loop over pkgs of BTPipeline.install: the calls on the manager, in
\* the order they are made.
RECURSIVE install(_, _, _, _, _, _)
install(pkg_names, i, include_dev, P, g, prebuilt) ==
    IF i > Len(pkg_names) THEN <<>>
    ELSE install_one(pkg_names[i], include_dev, P, g, prebuilt)
         \o install(pkg_names, i + 1, include_dev, P, g, prebuilt)

\* pipeline.install(pkg_names, include_dev) under a configuration of
\* use_prebuilt_binaries, inside its own build_cache scope.
Install(pkg_names, include_dev, prebuilt) ==
    /\ fromPkgs = "ok"
    /\ \E r1 \in {build_cache_enter(cache, heap)} :
       \E r2 \in {build_cache_exit(r1.cache, r1.heap, FALSE)} :
           /\ cache' = r2.cache
           /\ heap' = collect(r2.heap, r2.cache, scopes)
    /\ lastInstall' =
           [called |-> TRUE, pkg_names |-> pkg_names, include_dev |-> include_dev,
            use_prebuilt_binaries |-> prebuilt,
            calls |-> install(pkg_names, 1, include_dev, pkgs, graph, prebuilt)]
    /\ UNCHANGED <<lastDiscover, maskVars, graphVars, scopes, written, lastExit, treeVars,
                   diffVars, buildVars, enforceVars, publishVars, versionVars>>

NextInstall ==
    \/ \E p \in Owned, q \in Names, dev \in BOOLEAN : DeclareDependency(p, q, dev)
    \/ FromPkgs
    \/ \E pkg_names \in InstallRequests, include_dev \in BOOLEAN,
          prebuilt \in PrebuiltConfigs :
           Install(pkg_names, include_dev, prebuilt)

SpecInstall == InitGraph /\ [][NextInstall]_vars

(***************************************************************************)
(* The specification of version consistency: the manifests declare specs   *)
(* with every operator, the pass runs in every mode, versions are bumped.  *)
(***************************************************************************)
\* manager.next_version(pkg, rule): the version is bumped and the manifest
\* saved.  That the wheel then hashes to something else is EditPackage.
NextVersion(p, rule) ==
    /\ bumps < MaxBumps
    /\ bumps' = bumps + 1
    /\ pkgs' = [pkgs EXCEPT ![p].version = next_version(parse_version(@), rule)]
    /\ lastPass' = NoPass
    /\ lastPublish' = NoPublish
    /\ lastDiff' = NoRemoteDiff
    /\ UNCHANGED <<pipelineVars, versionVars, graph, fromPkgs, depQuery, registry, localHash, cacheVars, treeVars,
                   diffVars, buildVars>>

\* pipeline.enforce_version_consistency(mode, thirdparty_mode, freeze_packages).
\* The history keeps the packages and the invert_dependencies as they were
\* before the pass (before, inv), whether the third-party loop raised (conflict) and the thirdparty_pkgs it
\* computed (merged).
Enforce(mode, thirdparty_mode, freeze_packages) ==
    /\ fromPkgs = "ok"
    /\ \E r \in {enforce_version_consistency(pkgs, graph, mode, thirdparty_mode,
                                             freeze_packages)} :
        /\ pkgs' = r.pkgs
        /\ graph' = [graph EXCEPT !.inv = r.inv]
        /\ lastPass' =
              [called |-> TRUE, ok |-> r.ok, mode |-> mode,
               thirdparty_mode |-> thirdparty_mode,
               freeze_packages |-> freeze_packages,
               saved |-> r.saved, rewritten |-> r.rewritten,
               repeat |-> /\ lastPass.called /\ lastPass.ok
                          /\ lastPass.mode = mode
                          /\ lastPass.thirdparty_mode = thirdparty_mode
                          /\ lastPass.freeze_packages = freeze_packages,
               before |-> pkgs, inv |-> graph.inv, conflict |-> r.conflict,
               merged |-> r.thirdparty_pkgs]
    /\ UNCHANGED <<pipelineVars, versionVars, fromPkgs, depQuery, bumps, publishVars, cacheVars, treeVars,
                   diffVars, buildVars>>

NextEnforce ==
    \/ \E p \in Owned, rule \in Rules : NextVersion(p, rule)
    \/ \E mode \in Modes, thirdparty_mode \in Modes, freeze_packages \in Freezes :
           Enforce(mode, thirdparty_mode, freeze_packages)

\* The specs the manifests of the model declare: every operator before a
\* version, a version alone, and ">= 2.0.0" with a blank.
SpecLiterals == {<<1, 0, 0>>, <<2, 0, 0>>}
OwnedSpecStrings ==
    {SpecString(OpAlternatives[k], v) : k \in 1..Len(OpAlternatives), v \in SpecLiterals}
    \cup {<<Lit(v)>> : v \in SpecLiterals}
    \cup {<<Ch(">"), Ch("="), Ch(" "), Lit(<<2, 0, 0>>)>>}
ThirdPartySpecStrings ==
    {SpecString(<<"^">>, v) : v \in {<<1, 0, 0>>, <<1, 1, 0>>, <<2, 0, 0>>}}

\* A depends on B and on x, C depends on x for development; the graph is built.
EnforcePkgs(s1, s2, s3) ==
    [p \in Owned |->
        CASE p = "A" -> Package(<<1, 0, 0>>,
                                [d \in {"B", "x"} |->
                                    << DepConstraint(IF d = "B" THEN s1 ELSE s2, "") >>],
                                NoDeps)
          [] p = "B" -> Package(<<1, 0, 0>>, NoDeps, NoDeps)
          [] p = "C" -> Package(<<1, 0, 0>>, NoDeps,
                                [d \in {"x"} |-> << DepConstraint(s3, "") >>])]

InitEnforce ==
    /\ \E s1 \in OwnedSpecStrings, s3 \in ThirdPartySpecStrings :
        /\ pkgs = EnforcePkgs(s1, SpecString(<<"^">>, <<1, 1, 0>>), s3)
        /\ graph = from_pkgs(pkgs).g
    /\ fromPkgs = "ok"
    /\ depQuery = NoQuery
    /\ InitEnforceVars /\ InitPublishVars /\ InitPipelineVars
    /\ InitCacheVars /\ InitTreeVars /\ InitDiffVars /\ InitBuildVars
    /\ InitVersionVars

SpecEnforce == InitEnforce /\ [][NextEnforce]_vars

(***************************************************************************)
(* The specification of publishing: packages are edited and their versions *)
(* bumped, others release to the registry, publish is called.              *)
(***************************************************************************)
\* The developer changes the content of package p: its wheel hashes to h.
EditPackage(p, h) ==
    /\ h # localHash[p]
    /\ localHash' = [localHash EXCEPT ![p] = h]
    /\ lastPublish' = NoPublish
    /\ lastDiff' = NoRemoteDiff
    /\ UNCHANGED <<pipelineVars, versionVars, registry, enforceVars, graphVars, cacheVars, treeVars,
                   diffVars, buildVars>>

\* Someone else releases the next version of package p to the registry.
RegistryRelease(p, rule, h) ==
    /\ bumps < MaxBumps
    /\ bumps' = bumps + 1
    /\ registry' = [registry EXCEPT ![p] =
           [version |-> next_version(IF @.version = None THEN pkgs[p].version
                                     ELSE @.version, rule),
            hash |-> h]]
    /\ lastPublish' = NoPublish
    /\ lastDiff' = NoRemoteDiff
    /\ UNCHANGED <<pipelineVars, versionVars, localHash, lastPass, graphVars, cacheVars, treeVars,
                   diffVars, buildVars>>

\* pipeline.publish(pkg_names, registries), inside `with build_cache()`;
\* manager.publish(pkg) makes pkg's version and wheel the registry's latest.
\* The history records the candidates whose version is the registry's but
\* whose hash is not (drift) and those whose version is not the registry's
\* (pending), as the registry stood when publish was called, the names it
\* was called with and the packages, candidates or not, whose version was
\* not the registry's (differs).
Publish(pkg_names) ==
    /\ fromPkgs = "ok"
    /\ \E r \in {publish(pkg_names, pkgs, graph, registry, localHash)},
          r1 \in {build_cache_enter(cache, heap)} :
       \E r2 \in {build_cache_exit(r1.cache, r1.heap, r.raised)} :
       LET cands == {r.candidates[j] : j \in 1..Len(r.candidates)}
       IN  /\ registry' =
                 [p \in Owned |->
                     IF \E j \in 1..Len(r.calls) : r.calls[j] = p
                     THEN [version |-> pkgs[p].version, hash |-> localHash[p]]
                     ELSE registry[p]]
           /\ cache' = r2.cache
           /\ heap' = collect(r2.heap, r2.cache, scopes)
           /\ lastPublish' =
                 [called |-> TRUE, candidates |-> cands,
                  drift |-> {p \in cands : /\ registry[p].version = pkgs[p].version
                                           /\ registry[p].hash # localHash[p]},
                  pending |-> {p \in cands : registry[p].version # pkgs[p].version},
                  raised |-> r.raised, calls |-> r.calls,
                  pkg_names |-> pkg_names,
                  differs |-> {p \in Owned : registry[p].version # pkgs[p].version}]
    /\ lastDiff' = NoRemoteDiff
    /\ UNCHANGED <<pipelineVars, versionVars, localHash, scopes, written, lastExit, enforceVars, graphVars,
                   treeVars, diffVars, buildVars>>

\* RemoteDiff.from_pkg(manager, pkg, remote_version, remote_version_hash)
\* with what the registry answers for the package, as publish calls it.
FromPkg(p) ==
    /\ \E r \in {from_pkg(pkgs[p].version, localHash[p],
                          registry[p].version, registry[p].hash)} :
           lastDiff' = [called |-> TRUE, pkg |-> p, raised |-> ~r.ok,
                        is_version_diff |-> r.is_version_diff,
                        is_content_changed |-> r.is_content_changed]
    /\ lastPublish' = NoPublish
    /\ UNCHANGED <<pipelineVars, versionVars, registry, localHash, enforceVars, graphVars,
                   cacheVars, treeVars, diffVars, buildVars>>

NextPublish ==
    \/ \E p \in Owned, rule \in Rules : NextVersion(p, rule)
    \/ \E p \in Owned, h \in Hashes : EditPackage(p, h)
    \/ \E p \in Owned, rule \in Rules, h \in Hashes : RegistryRelease(p, rule, h)
    \/ \E pkg_names \in PublishRequests : Publish(pkg_names)
    \/ \E p \in Owned : FromPkg(p)

\* A depends on B and C depends on A for development; the graph is built.
PublishPkgs ==
    [p \in Owned |->
        CASE p = "A" -> Package(<<1, 0, 0>>, [d \in {"B"} |-> DefaultSpecs], NoDeps)
          [] p = "B" -> Package(<<1, 0, 0>>, NoDeps, NoDeps)
          [] p = "C" -> Package(<<1, 0, 0>>, NoDeps, [d \in {"A"} |-> DefaultSpecs])]

InitPublish ==
    /\ pkgs = PublishPkgs
    /\ graph = from_pkgs(PublishPkgs).g
    /\ fromPkgs = "ok"
    /\ depQuery = NoQuery
    /\ InitEnforceVars /\ InitPublishVars /\ InitPipelineVars
    /\ InitCacheVars /\ InitTreeVars /\ InitDiffVars /\ InitBuildVars
    /\ InitVersionVars

SpecPublish == InitPublish /\ [][NextPublish]_vars

(***************************************************************************)
(* Claims about the dependency graph                                       *)
(***************************************************************************)
\* The packages declare a cycle: some chain of declared dependencies, prod or
\* dev, leads from a package back to itself.
DeclaresCycle(P) ==
    \E k \in 1..Cardinality(DOMAIN P) : \E s \in [1..k -> DOMAIN P] :
        /\ \A i \in 1..(k - 1) : s[i + 1] \in DepNames(P[s[i]])
        /\ s[1] \in DepNames(P[s[k]])

\* C1: from_pkgs raises the cyclic-dependency error exactly when the declared
\* dependencies of the owned packages, prod or dev, contain a directed cycle (a
\* package depending on itself included), and returns a graph otherwise.
C1_CycleDetection ==
    fromPkgs # "none" => (fromPkgs = "cycle" <=> DeclaresCycle(pkgs))

\* from_pkgs has rejected a cycle that is closed by a dev-only dependency.
C1_Witness ==
    /\ fromPkgs = "cycle"
    /\ \E p, q \in Owned :
        /\ p # q
        /\ q \in DOMAIN pkgs[p].dev_dependencies \ DOMAIN pkgs[p].dependencies
        /\ p \in DOMAIN pkgs[q].dependencies

\* C2: when A depends on B only as a dev dependency, B depends on C as a prod
\* dependency and nothing else depends on C, dependencies(A, include_dev=False)
\* holds neither B nor C and dependencies(A, include_dev=True) holds both.
C2_DevClosure ==
    \A a, b \in Owned : \A c \in Names :
        ( /\ fromPkgs = "ok"
          /\ depQuery.pkg = a
          /\ a # b /\ b # c /\ a # c
          /\ b \in DOMAIN pkgs[a].dev_dependencies \ DOMAIN pkgs[a].dependencies
          /\ c \in DOMAIN pkgs[b].dependencies
          /\ \A p \in Owned \ {b} : c \notin DepNames(pkgs[p]) )
        => IF depQuery.include_dev
           THEN b \in depQuery.result /\ c \in depQuery.result
           ELSE b \notin depQuery.result /\ c \notin depQuery.result

(***************************************************************************)
(* Claims about build_cache                                                *)
(***************************************************************************)
\* C9: while scopes are open they all hold the same dictionary, which is
\* _cache["db"]; that dictionary holds exactly the entries written since the
\* outermost scope opened (so an entry stays visible until the outermost scope
\* exits, and the next outermost scope starts empty); and the depth counter
\* equals the number of open scopes, also after a scope has exited by exception.
C9_BuildCacheNesting ==
    /\ "count" \in DOMAIN cache => cache.count = Len(scopes)
    /\ "count" \notin DOMAIN cache => scopes = <<>>
    /\ \A i \in 1..Len(scopes) :
        /\ scopes[i] = cache.db
        /\ DOMAIN heap[scopes[i]] = written

\* An inner scope has exited by exception, the outer scope is still open and
\* still sees the entry, and this is not the first outermost scope.
C9_Witness ==
    /\ lastExit = "raise"
    /\ Len(scopes) = 1
    /\ cache.count = 1
    /\ written # {}
    /\ DOMAIN heap[scopes[1]] = written
    /\ scopes[1] # 1

(***************************************************************************)
(* Claims about the snapshot store                                         *)
(***************************************************************************)
\* The Diff a caller would get from Diff.from_local right now.
FreshDiff == from_local(commit, head, work)

\* C5: after save of a Diff that reflects the tree, save has not raised and a
\* new Diff computed from the unchanged tree reports is_modified false,
\* whatever mix of added, edited and deleted files the Diff lists.
C5_SaveThenNotModified ==
    (lastOp.op = "save" /\ diffValid[lastOp.slot]) =>
        /\ lastOp.result = "ok"
        /\ is_modified(FreshDiff, db, work).result = "false"

C5_Witness ==
    /\ lastOp.op = "save"
    /\ diffValid[lastOp.slot]
    /\ lastOp.result = "ok"
    /\ \E i, j \in 1..Len(diffs[lastOp.slot].changed_files) :
        /\ diffs[lastOp.slot].changed_files[i].is_deleted
        /\ ~diffs[lastOp.slot].changed_files[j].is_deleted
    /\ is_modified(FreshDiff, db, work).result = "false"

\* C6: is_modified called on a store that holds no snapshot returns true.
C6_EmptyStoreModified ==
    (lastOp.op = "is_modified" /\ db = EmptyStore) => lastOp.result = "true"

C6_Witness ==
    /\ lastOp.op = "is_modified"
    /\ db = EmptyStore
    /\ lastOp.result = "true"
    /\ diffs[lastOp.slot].changed_files # <<>>

\* C7: is_modified of a Diff that reflects the tree returns true whenever the
\* stored commit id, the stored changed-file list, or the stored content of a
\* changed non-deleted file differs from the current one.
C7_DifferenceDetected ==
    (/\ lastOp.op = "is_modified"
     /\ diffValid[lastOp.slot]
     /\ SnapshotDiffers(diffs[lastOp.slot], db, work)) => lastOp.result = "true"

C7_Witness ==
    /\ lastOp.op = "is_modified"
    /\ diffValid[lastOp.slot]
    /\ db.commit_id = diffs[lastOp.slot].commit_id
    /\ db.changed_files = diffs[lastOp.slot].changed_files
    /\ SnapshotDiffers(diffs[lastOp.slot], db, work)
    /\ lastOp.result = "true"

\* C8: calling is_modified again on the same Diff, with store and tree
\* unchanged in between, returns what the call before returned.
C8_RepeatedCallSameResult ==
    \A d \in DiffSlots :
        prevCheck[d] # "none" => lastCheck[d] = prevCheck[d]

(***************************************************************************)
(* Claims about the build step                                             *)
(***************************************************************************)
\* The first half of C10: a build that finds wheel and sdist and a snapshot
\* equal to the commit, changed-file list and file contents it sees does not
\* run the build command and does not delete the distribution directory.
BuildSkipped ==
    (lastBuild.called /\ lastBuild.artifacts /\ lastBuild.unchanged) =>
        (~lastBuild.ran /\ ~lastBuild.wiped)

\* C10 as stated: the first half, and a build with no recorded snapshot
\* wipes the distribution directory and runs the build command.
C10_Original ==
    /\ BuildSkipped
    /\ (lastBuild.called /\ ~lastBuild.hadSnapshot) =>
           /\ lastBuild.ran
           /\ lastBuild.distExisted => (lastBuild.wiped /\ ~lastBuild.flagLeft)

\* C10 as amended: the first half, and a build with no recorded snapshot runs
\* the build command, and wipes the distribution directory when clean_dist is
\* true (Poetry.build always wipes it) and leaves it when clean_dist is false.
C10_BuildGuard ==
    /\ BuildSkipped
    /\ (lastBuild.called /\ ~lastBuild.hadSnapshot) =>
           /\ lastBuild.ran
           /\ (lastBuild.distExisted /\ lastBuild.clean_dist) =>
                  (lastBuild.wiped /\ ~lastBuild.flagLeft)
           /\ ~lastBuild.clean_dist => ~lastBuild.wiped

C10_Witness ==
    /\ lastBuild.called
    /\ ~lastBuild.hadSnapshot
    /\ lastBuild.distExisted
    /\ ~lastBuild.clean_dist
    /\ lastBuild.ran
    /\ ~lastBuild.wiped
    /\ lastBuild.flagLeft

(***************************************************************************)
(* Claims about version consistency                                        *)
(***************************************************************************)
\* C3: after a successful enforce_version_consistency(COMPATIBLE) pass, a
\* second pass with the same arguments and no change in between assigns to
\* no spec and calls manager.save for no package.
C3_EnforceIdempotent ==
    (/\ lastPass.called /\ lastPass.ok /\ lastPass.repeat
     /\ lastPass.mode = "compatible") =>
        (lastPass.saved = {} /\ lastPass.rewritten = {})

(***************************************************************************)
(* Claims about publish                                                    *)
(***************************************************************************)
\* C4: when a candidate of publish has the registry's latest version but
\* not the registry's hash, publish raises and manager.publish is called
\* for no package in that invocation.
C4_PublishDriftGate ==
    (lastPublish.called /\ lastPublish.drift # {}) =>
        (lastPublish.raised /\ lastPublish.calls = <<>>)

\* C4's case: one candidate has drifted while another has a version the
\* registry does not have yet, and nothing was published.
C4_Witness ==
    /\ lastPublish.called
    /\ lastPublish.drift # {}
    /\ lastPublish.pending # {}
    /\ lastPublish.raised
    /\ lastPublish.calls = <<>>


(***************************************************************************)
(* The specification of version specs: a spec is at hand, intersect and    *)
(* is_version_compatible are applied to it.                                *)
(***************************************************************************)
\* The versions that specs name, and the versions that are tested against
\* them: one step beyond in every part, and 1.999.999.
SpecVersions == {<<a, b, 0>> : a \in 1..MaxMajor, b \in 0..MaxMinor}
ProbeVersions ==
    {<<a, b, c>> : a \in 0..(MaxMajor + 1), b \in 0..(MaxMinor + 1), c \in 0..1}
    \cup {<<1, 999, 999>>}

VersionSpecStrings ==
    {SpecString(OpAlternatives[k], v) : k \in 1..Len(OpAlternatives), v \in SpecVersions}

\* self.intersect(version_spec), self being what the parser reads in the
\* string at hand and version_spec what it reads in other.
Intersect(other) ==
    /\ \E r \in {intersect(parse_version_spec(versionSpec).spec,
                           parse_version_spec(other).spec)} :
           lastIntersect' = [called |-> TRUE, other |-> other,
                             ok |-> r.ok, spec |-> r.spec]
    /\ lastCompatible' = NoCompatible
    /\ lastUpdate' = NoUpdate
    /\ lastParse' = NoParse
    /\ lastUpdateVersion' = NoUpdateVersion
    /\ UNCHANGED <<pipelineVars, versionSpec, specLists, lastFind, graphVars, cacheVars, treeVars, diffVars,
                   buildVars, enforceVars, publishVars>>

\* manager.is_version_compatible(version, version_spec) on the spec at hand.
IsVersionCompatible(version) ==
    /\ lastCompatible' =
           [called |-> TRUE, version |-> version,
            value |-> is_version_compatible(version, versionSpec)]
    /\ lastIntersect' = NoIntersect
    /\ lastUpdate' = NoUpdate
    /\ lastUpdateVersion' = NoUpdateVersion
    /\ UNCHANGED <<pipelineVars, versionSpec, specLists, lastFind, lastParse, graphVars, cacheVars, treeVars, diffVars,
                   buildVars, enforceVars, publishVars>>

\* manager.update_version_spec(version_spec, version) on the spec at hand.
UpdateVersionSpec(version) ==
    /\ \E r \in {update_version_spec(versionSpec, version)} :
           lastUpdate' = [called |-> TRUE, version |-> version,
                          ok |-> r.ok, version_spec |-> r.version_spec]
    /\ lastIntersect' = NoIntersect
    /\ lastCompatible' = NoCompatible
    /\ lastUpdateVersion' = NoUpdateVersion
    /\ UNCHANGED <<pipelineVars, versionSpec, specLists, lastFind, lastParse, graphVars, cacheVars, treeVars, diffVars,
                   buildVars, enforceVars, publishVars>>

\* self.update_version(version), self being the VersionSpec read in the
\* string at hand.
UpdateVersion(version) ==
    /\ \E r \in {update_version(parse_version_spec(versionSpec).spec, version)} :
           lastUpdateVersion' =
               [called |-> TRUE, version |-> version, raised |-> r.raised,
                none |-> r.none, spec |-> r.spec]
    /\ lastIntersect' = NoIntersect
    /\ lastCompatible' = NoCompatible
    /\ lastUpdate' = NoUpdate
    /\ UNCHANGED <<pipelineVars, versionSpec, specLists, lastFind, lastParse, graphVars,
                   cacheVars, treeVars, diffVars,
                   buildVars, enforceVars, publishVars>>

NextVersionSpec ==
    \/ \E other \in VersionSpecStrings : Intersect(other)
    \/ \E version \in ProbeVersions : IsVersionCompatible(version)
    \/ \E version \in ProbeVersions : UpdateVersionSpec(version)
    \/ \E version \in ProbeVersions : UpdateVersion(version)

InitVersionSpec ==
    /\ versionSpec \in VersionSpecStrings
    /\ lastIntersect = NoIntersect
    /\ lastCompatible = NoCompatible
    /\ lastUpdate = NoUpdate
    /\ specLists = <<>> /\ lastFind = NoFind /\ lastParse = NoParse
    /\ lastUpdateVersion = NoUpdateVersion
    /\ InitGraphVars /\ InitCacheVars /\ InitTreeVars /\ InitDiffVars
    /\ InitBuildVars /\ InitEnforceVars /\ InitPublishVars /\ InitPipelineVars

SpecVersionSpec == InitVersionSpec /\ [][NextVersionSpec]_vars

(***************************************************************************)
(* The specification of find_latest_specs: owners declare specs for one    *)
(* third-party package, a spec each and all under the same constraint, and *)
(* find_latest_specs is called on the lists gathered.                      *)
(***************************************************************************)
\* ">=a, <b" as a spec string.
RangeString(a, b) ==
    SpecString(<<">", "=">>, a) \o <<Ch(","), Ch(" ")>> \o SpecString(<<"<">>, b)

FindVersions == {<<1, 0, 0>>, <<1, 1, 0>>, <<2, 0, 0>>, <<3, 0, 0>>}

\* The specs the owners declare: caret specs, lower bounds, ranges, and one
\* spec without a lower bound.
FindSpecStrings ==
    {SpecString(op, v) : op \in {<<"^">>, <<">", "=">>}, v \in FindVersions}
    \cup {RangeString(p[1], p[2]) :
              p \in {q \in FindVersions \X FindVersions : VLess(q[1], q[2])}}
    \cup {SpecString(<<"<">>, <<2, 0, 0>>)}

\* One more owner declares the package, with the spec s: its list is added
\* to the values of invert_dependencies.
DeclareSpec(s) ==
    /\ Len(specLists) < MaxSpecs
    /\ specLists' = Append(specLists, << DepConstraint(s, "") >>)
    /\ lastFind' = NoFind
    /\ UNCHANGED <<pipelineVars, versionSpec, lastUpdateVersion, lastIntersect, lastCompatible, lastUpdate, lastParse,
                   graphVars, cacheVars, treeVars, diffVars,
                   buildVars, enforceVars, publishVars>>

\* manager.find_latest_specs(lst_specs, mode)
FindLatestSpecs(mode) ==
    /\ \E r \in {find_latest_specs(specLists, mode)} :
           lastFind' = [called |-> TRUE, mode |-> mode, ok |-> r.ok,
                        specs |-> r.specs]
    /\ UNCHANGED <<pipelineVars, versionSpec, lastUpdateVersion, lastIntersect, lastCompatible, lastUpdate, lastParse,
                   specLists, graphVars, cacheVars, treeVars, diffVars,
                   buildVars, enforceVars, publishVars>>

NextFindLatest ==
    \/ \E s \in FindSpecStrings : DeclareSpec(s)
    \/ \E mode \in Modes : FindLatestSpecs(mode)

InitFindLatest ==
    /\ InitGraphVars /\ InitCacheVars /\ InitTreeVars /\ InitDiffVars
    /\ InitBuildVars /\ InitEnforceVars /\ InitPublishVars /\ InitPipelineVars /\ InitVersionVars

SpecFindLatest == InitFindLatest /\ [][NextFindLatest]_vars

(***************************************************************************)
(* The specification of the parser: a spec string is at hand,              *)
(* parse_version_spec is applied to it, and what it reads is intersected   *)
(* with what it reads in another string.                                   *)
(***************************************************************************)
\* The versions as they are written: "1", "1.2" and "1.2.3".
ParseLiterals ==
    {<<a>> : a \in 0..MaxPart}
    \cup {<<a, b>> : a \in 0..MaxPart, b \in 0..MaxPart}
    \cup {<<a, b, c>> : a \in 0..MaxPart, b \in 0..MaxPart, c \in 0..MaxPart}

\* The strings parsed: a caret, a tilde, "==", ">=" or nothing before a
\* version, and ">=a, <b" for bounds in either order.
ParseRules ==
    {SpecString(op, p) : op \in {<<"^">>, <<"~">>, <<"=", "=">>, <<">", "=">>},
                         p \in ParseLiterals}
    \cup {<<Lit(p)>> : p \in ParseLiterals}
    \cup {RangeString(a, b) : a \in FindVersions, b \in FindVersions}

\* manager.parse_version_spec(rule) on the string at hand.
ParseVersionSpec ==
    /\ \E r \in {parse_version_spec(versionSpec)} :
           lastParse' = [called |-> TRUE, ok |-> r.ok, spec |-> r.spec]
    /\ lastIntersect' = NoIntersect
    /\ UNCHANGED <<pipelineVars, versionSpec, lastUpdateVersion, lastCompatible, lastUpdate, specLists, lastFind,
                   graphVars, cacheVars, treeVars, diffVars,
                   buildVars, enforceVars, publishVars>>

NextParse ==
    \/ ParseVersionSpec
    \/ \E other \in FindSpecStrings : Intersect(other)

InitParse ==
    /\ versionSpec \in ParseRules
    /\ lastIntersect = NoIntersect
    /\ lastCompatible = NoCompatible
    /\ lastUpdate = NoUpdate
    /\ specLists = <<>> /\ lastFind = NoFind /\ lastParse = NoParse
    /\ lastUpdateVersion = NoUpdateVersion
    /\ InitGraphVars /\ InitCacheVars /\ InitTreeVars /\ InitDiffVars
    /\ InitBuildVars /\ InitEnforceVars /\ InitPublishVars /\ InitPipelineVars

SpecParse == InitParse /\ [][NextParse]_vars

(***************************************************************************)
(* The predecessors the filter of dependencies looks at                    *)
(***************************************************************************)
\* C19: dependencies(p, include_dev=False) keeps a node p reaches exactly
\* when some edge into it from p or from a node p reaches is no dev edge;
\* edges from packages p does not reach do not count, so a node p reaches
\* only through dev edges is dropped even when an unrelated package depends
\* on it as a prod dependency.
C19_FilterWithinReach ==
    (fromPkgs = "ok" /\ depQuery.pkg # "" /\ ~depQuery.include_dev) =>
        LET reach == Reach(graph, {depQuery.pkg})
        IN  depQuery.result =
                {vid \in reach \ {depQuery.pkg} :
                    \E uid \in predecessors(graph, vid) \cap reach :
                        <<uid, vid>> \notin graph.is_dev}

(***************************************************************************)
(* What the claims on a pass of enforce_version_consistency speak of       *)
(***************************************************************************)
DepFields == {"dependencies", "dev_dependencies"}

\* The entries <<field, dep, i>> of package p in P whose dependency is one of
\* the project's own packages, and those whose dependency is third-party.
OwnedSpecsOf(P, p) ==
    {e \in DepFields \X Owned \X (1..MaxDeps) :
        e[2] \in DOMAIN P[p][e[1]] /\ e[3] <= Len(P[p][e[1]][e[2]])}

ThirdPartyEntriesOf(P, p) ==
    {e \in DepFields \X ThirdParty : e[2] \in DOMAIN P[p][e[1]]}

\* The version of the dependency of entry e satisfies the spec P declares.
StillSatisfied(P, p, e) ==
    is_version_compatible(parse_version(P[e[2]].version),
                          P[p][e[1]][e[2]][e[3]].version_spec)

\* C11: in COMPATIBLE mode, after a pass that returned, every spec a
\* non-frozen package declared for an owned dependency is what it was when
\* the dependency's version satisfied it and what update_version_spec gives
\* when it did not, and manager.save was called for the package exactly when
\* one of its owned specs was not satisfied or one of its third-party
\* entries differed from the merged spec: a satisfied spec alone causes no
\* save.
C11_CompatibleRewritesOnlyIncompatible ==
    (lastPass.called /\ lastPass.ok /\ lastPass.mode = "compatible") =>
        \A p \in Owned \ lastPass.freeze_packages :
            /\ \A e \in OwnedSpecsOf(lastPass.before, p) :
                  pkgs[p][e[1]][e[2]][e[3]].version_spec =
                      IF StillSatisfied(lastPass.before, p, e)
                      THEN lastPass.before[p][e[1]][e[2]][e[3]].version_spec
                      ELSE update_version_spec(
                               lastPass.before[p][e[1]][e[2]][e[3]].version_spec,
                               parse_version(lastPass.before[e[2]].version)).version_spec
            /\ p \in lastPass.saved <=>
                  \/ \E e \in OwnedSpecsOf(lastPass.before, p) :
                         ~StillSatisfied(lastPass.before, p, e)
                  \/ \E e \in ThirdPartyEntriesOf(lastPass.before, p) :
                         lastPass.before[p][e[1]][e[2]] # lastPass.merged[e[2]]

\* A's spec for B was ^1.0.0, B is at 1.0.1: the pass left the spec and did
\* not save A.
C11_Witness ==
    /\ lastPass.called /\ lastPass.ok /\ lastPass.mode = "compatible"
    /\ "A" \notin lastPass.freeze_packages
    /\ lastPass.before["A"].dependencies["B"][1].version_spec
           = SpecString(<<"^">>, <<1, 0, 0>>)
    /\ pkgs["B"].version = <<1, 0, 1>>
    /\ pkgs["A"].dependencies["B"][1].version_spec = SpecString(<<"^">>, <<1, 0, 0>>)
    /\ "A" \notin lastPass.saved


\* The lower bound the parser reads in the spec of entry e equals the
\* version of the entry's dependency.
LowerboundIsVersion(P, p, e) ==
    parse_version_spec(P[p][e[1]][e[2]][e[3]].version_spec).spec.lowerbound
        = parse_version(P[e[2]].version)

\* C12: in STRICT mode, after a pass that returned, every spec a non-frozen
\* package declares for an owned dependency has the dependency's version as
\* its parsed lower bound, and a spec whose lower bound was another one has
\* been assigned what update_version_spec gives and its package saved.
C12_StrictLowerbound ==
    (lastPass.called /\ lastPass.ok /\ lastPass.mode = "strict") =>
        \A p \in Owned \ lastPass.freeze_packages :
            \A e \in OwnedSpecsOf(lastPass.before, p) :
                /\ LowerboundIsVersion(pkgs, p, e)
                /\ ~LowerboundIsVersion(lastPass.before, p, e) =>
                      /\ p \in lastPass.saved
                      /\ pkgs[p][e[1]][e[2]][e[3]].version_spec =
                             update_version_spec(
                                 lastPass.before[p][e[1]][e[2]][e[3]].version_spec,
                                 parse_version(lastPass.before[e[2]].version)).version_spec


\* invert_dependencies with the entries of the packages of S replaced by
\* the one spec s.
WithSpecsOf(inv, S, s) ==
    [t \in DOMAIN inv |->
        [k \in DOMAIN inv[t] |->
            IF k \in S THEN << DepConstraint(s, "") >> ELSE inv[t][k]]]

\* C17: a pass leaves a package named in freeze_packages as it was, its
\* entries in invert_dependencies included, and does not call manager.save
\* for it; and whatever specs the frozen packages declare for third-party
\* packages, the third-party loop raises or not just the same and computes
\* the same merged specs.
C17_FrozenUntouched ==
    lastPass.called =>
        /\ \A p \in lastPass.freeze_packages :
               /\ pkgs[p] = lastPass.before[p]
               /\ p \notin lastPass.saved /\ p \notin lastPass.rewritten
               /\ \A t \in DOMAIN graph.inv :
                      p \in DOMAIN graph.inv[t] => graph.inv[t][p] = lastPass.inv[t][p]
        /\ \A s \in ThirdPartySpecStrings :
               \E r \in {enforce_thirdparties(
                             WithSpecsOf(lastPass.inv, lastPass.freeze_packages, s),
                             1, [n \in {} |-> <<>>], lastPass.thirdparty_mode,
                             lastPass.freeze_packages)} :
                   /\ r.ok = ~lastPass.conflict
                   /\ r.thirdparty_pkgs = lastPass.merged

\* C is frozen and declares another spec for x than the merged one: the pass
\* returned, saved A, and left C as it was.
C17_Witness ==
    /\ lastPass.called /\ lastPass.ok
    /\ lastPass.freeze_packages = {"C"}
    /\ lastPass.before["C"].dev_dependencies["x"] # lastPass.merged["x"]
    /\ pkgs["C"] = lastPass.before["C"]
    /\ "A" \in lastPass.saved /\ "C" \notin lastPass.saved

\* C18: when merging the specs of a third-party package fails with a
\* conflict, the pass raises, no manifest has been saved and every package
\* declares what it declared before the pass.
C18_ConflictAbortsPass ==
    (lastPass.called /\ lastPass.conflict) =>
        /\ ~lastPass.ok
        /\ lastPass.saved = {} /\ lastPass.rewritten = {}
        /\ pkgs = lastPass.before

\* The third-party loop raised in a pass that would have rewritten A's spec
\* for B, which B's version does not satisfy.
C18_Witness ==
    /\ lastPass.called /\ lastPass.conflict /\ ~lastPass.ok
    /\ lastPass.mode = "compatible"
    /\ "A" \notin lastPass.freeze_packages
    /\ ~StillSatisfied(lastPass.before, "A", <<"dependencies", "B", 1>>)
    /\ pkgs = lastPass.before /\ lastPass.saved = {}

(***************************************************************************)
(* What the claims on VersionSpec speak of                                 *)
(***************************************************************************)
\* Version v lies within the bounds of spec, by the order of versions.
WithinBounds(spec, v) ==
    /\ \/ spec.lowerbound = None
       \/ VLess(spec.lowerbound, v)
       \/ spec.lowerbound = v /\ spec.is_lowerbound_inclusive
    /\ \/ spec.upperbound = None
       \/ VLess(v, spec.upperbound)
       \/ spec.upperbound = v /\ spec.is_upperbound_inclusive

\* Some version lies within the bounds of both specs.  The specs name
\* versions with patch 0, so that between two different bounds lies a
\* version of ProbeVersions.
ShareVersion(a, b) ==
    \E v \in ProbeVersions : WithinBounds(a, v) /\ WithinBounds(b, v)

\* C13: intersect raises whenever the two specs share no version, as for
\* ^1.0.0 with ^2.0.0; for ^1.1.0 with ^1.2.0 it returns [1.2.0, 2.0.0).
C13_IntersectConflict ==
    lastIntersect.called =>
        /\ ~ShareVersion(parse_version_spec(versionSpec).spec,
                         parse_version_spec(lastIntersect.other).spec)
               => ~lastIntersect.ok
        /\ (/\ versionSpec = SpecString(<<"^">>, <<1, 1, 0>>)
            /\ lastIntersect.other = SpecString(<<"^">>, <<1, 2, 0>>)) =>
               /\ lastIntersect.ok
               /\ lastIntersect.spec = VersionSpec(<<1, 2, 0>>, <<2, 0, 0>>, TRUE, FALSE)


\* C14: is_version_compatible(v) is true exactly when v lies within the
\* bounds: no lower bound, or lowerbound < v, or lowerbound = v and the
\* lower bound inclusive, and the same for the upper bound; so for ^1.2.0
\* the versions 1.2.0 and 1.999.999 are compatible and 2.0.0 is not.
C14_CompatibleTruthTable ==
    lastCompatible.called =>
        /\ lastCompatible.value <=>
               WithinBounds(parse_version_spec(versionSpec).spec,
                            lastCompatible.version)
        /\ versionSpec = SpecString(<<"^">>, <<1, 2, 0>>) =>
               /\ lastCompatible.version \in {<<1, 2, 0>>, <<1, 999, 999>>}
                      => lastCompatible.value
               /\ lastCompatible.version = <<2, 0, 0>> => ~lastCompatible.value

\* ^1.2.0 was tested against 2.0.0, its excluded upper bound, and the answer
\* was no.
C14_Witness ==
    /\ lastCompatible.called
    /\ versionSpec = SpecString(<<"^">>, <<1, 2, 0>>)
    /\ lastCompatible.version = <<2, 0, 0>>
    /\ ~lastCompatible.value


(***************************************************************************)
(* What the claims on publishing speak of                                  *)
(***************************************************************************)
\* C15: from_pkg raises when the local version differs from a remote
\* version that exists and is greater; when the versions differ otherwise,
\* the package being absent from the registry included, it returns
\* (is_version_diff, is_content_changed) = (true, true); when they are equal
\* it returns is_version_diff false and is_content_changed true exactly
\* when the local hash differs from the remote one.
C15_RemoteDiffCases ==
    lastDiff.called =>
        LET version == pkgs[lastDiff.pkg].version
            remote == registry[lastDiff.pkg]
            outdated == remote.version # None /\ VLess(version, remote.version)
        IN  /\ (version # remote.version /\ outdated) => lastDiff.raised
            /\ (version # remote.version /\ ~outdated) =>
                   /\ ~lastDiff.raised
                   /\ lastDiff.is_version_diff /\ lastDiff.is_content_changed
            /\ version = remote.version =>
                   /\ ~lastDiff.raised
                   /\ ~lastDiff.is_version_diff
                   /\ lastDiff.is_content_changed
                          <=> localHash[lastDiff.pkg] # remote.hash

\* The registry holds a greater version than the local one, and the call
\* raised.
C15_Witness ==
    /\ lastDiff.called /\ lastDiff.raised
    /\ registry[lastDiff.pkg].version # None
    /\ VLess(pkgs[lastDiff.pkg].version, registry[lastDiff.pkg].version)


\* The place of a package's name among the names in ascending order.
NameRank(n) == CHOOSE i \in 1..Len(NameSeq) : NameSeq[i] = n

C20_Original == lastBuild.called => ~lastBuild.rerun

\* C20, amended: within one outermost scope the build command does not run
\* again for the combination it ran for last, unless a build under another
\* combination has been recorded since.
C20_OncePerRow == lastBuild.called => ~lastBuild.rerunInARow

\* The build command has run for both combinations in the open scope, and
\* the build just called, under the combination built last, found its entry
\* and returned without running the command again.
C20_Witness ==
    /\ lastBuild.called /\ lastBuild.hit /\ ~lastBuild.ran
    /\ scopes # <<>>
    /\ scopeRuns.ran = BuildOpts
    /\ scopeRuns.row # {}


(***************************************************************************)
(* C21: build records a new snapshot only when the build step succeeded:   *)
(* when the build command fails the stored commit id, changed-file list    *)
(* and content entries are as the call found them.                         *)
(***************************************************************************)
C21_FailedBuildKeepsStore ==
    (lastBuild.called /\ lastBuild.failed) => ~lastBuild.stored


(***************************************************************************)
(* C22: after a save the store holds a content entry only for paths that   *)
(* are non-deleted members of the changed-file list just saved: the        *)
(* entries of the paths the previous list had and this one has not, and    *)
(* of deleted files, are gone.                                             *)
(***************************************************************************)
C22_ContentOnlyForListed ==
    (lastOp.op = "save" /\ lastOp.result = "ok") =>
        DOMAIN db.content \subseteq
            {db.changed_files[i].fpath :
                i \in {j \in 1..Len(db.changed_files) :
                          ~db.changed_files[j].is_deleted}}


\* The operator a spec of one comparator was written with.
OperatorOf(version_spec) ==
    CHOOSE k \in 1..Len(OpAlternatives) :
        \E v \in SpecVersions : version_spec = SpecString(OpAlternatives[k], v)

(***************************************************************************)
(* C23: update_version_spec(spec, v) returns the operator of spec followed *)
(* by v, for every spec of one comparator with operator ^, ~, ==, >, >=,   *)
(* < or <=: nothing but the version literal changes.                       *)
(***************************************************************************)
C23_UpdateKeepsOperator ==
    lastUpdate.called =>
        /\ lastUpdate.ok
        /\ lastUpdate.version_spec =
               SpecString(OpAlternatives[OperatorOf(versionSpec)],
                          lastUpdate.version)


\* The owned packages reached from those of S through entries of
\* dependencies alone, S included.
RECURSIVE NonDevClosure(_, _)
NonDevClosure(P, S) ==
    LET T == S \cup {d \in DOMAIN P : \E q \in S : d \in DOMAIN P[q].dependencies}
    IN  IF T = S THEN S ELSE NonDevClosure(P, T)

(***************************************************************************)
(* C24: when publish raises no error it calls manager.publish exactly once *)
(* for each candidate whose local version is not the registry's latest     *)
(* (a package the registry does not have included), for no other package,  *)
(* and in ascending order of the names.  The candidates are the requested  *)
(* packages and the owned packages in their non-dev transitive closure.    *)
(***************************************************************************)
C24_PublishEachPendingOnce ==
    (lastPublish.called /\ ~lastPublish.raised) =>
        LET requested == {lastPublish.pkg_names[i] :
                             i \in 1..Len(lastPublish.pkg_names)}
            expected == NonDevClosure(pkgs, requested) \cap lastPublish.differs
        IN  /\ {lastPublish.calls[j] : j \in 1..Len(lastPublish.calls)} = expected
            /\ Len(lastPublish.calls) = Cardinality(expected)
            /\ \A i, j \in 1..Len(lastPublish.calls) :
                   i < j => NameRank(lastPublish.calls[i])
                                < NameRank(lastPublish.calls[j])


(***************************************************************************)
(* C25: after the third-party loop of enforce_version_consistency every    *)
(* invert_dependencies entry of a third-party node holds the merged spec   *)
(* list computed for that node, whichever owner the entry belongs to.      *)
(***************************************************************************)
C25_EveryEntryMerged ==
    (lastPass.called /\ ~lastPass.conflict) =>
        \A t \in DOMAIN lastPass.merged :
            \A k \in DOMAIN graph.inv[t] : graph.inv[t][k] = lastPass.merged[t]


(***************************************************************************)
(* What the claims on find_latest_specs speak of                           *)
(***************************************************************************)
\* The spec strings handed to the last call, in their order, and what the
\* parser reads in each.
FindInputs == [i \in 1..Len(specLists) |-> specLists[i][1].version_spec]
FindParsed == [i \in 1..Len(specLists) |-> parse_version_spec(FindInputs[i]).spec]

\* C26 as stated: in mode 'strict' the call fails when two specs under one
\* constraint are not textually identical, also when they parse to the same
\* interval.
C26_Original ==
    (lastFind.called /\ lastFind.mode = "strict") =>
        ((\E i, j \in 1..Len(specLists) : FindInputs[i] # FindInputs[j])
            => ~lastFind.ok)


\* C26, amended: in mode 'strict' the call fails when two specs under one
\* constraint do not parse to the same VersionSpec, and it returns when all
\* of them do, whether or not their strings are the same.
C26_StrictSameInterval ==
    (lastFind.called /\ lastFind.mode = "strict") =>
        (lastFind.ok <=> \A i, j \in 1..Len(specLists) : FindParsed[i] = FindParsed[j])

\* '^1.0.0' and '>=1.0.0, <2.0.0' were given in mode 'strict' and the call
\* returned.
C26_Witness ==
    /\ lastFind.called /\ lastFind.mode = "strict" /\ lastFind.ok
    /\ Len(specLists) = 2
    /\ FindInputs[1] = SpecString(<<"^">>, <<1, 0, 0>>)
    /\ FindInputs[2] = RangeString(<<1, 0, 0>>, <<2, 0, 0>>)


\* Some version lies within the bounds of every spec handed to the call.
CommonVersion ==
    \E v \in ProbeVersions : \A i \in 1..Len(specLists) : WithinBounds(FindParsed[i], v)

\* C27: in mode 'compatible' the call fails whenever the specs under one
\* constraint have no version in common, however many they are; when it
\* returns, the spec it returns shares a version with every spec given.
C27_CompatibleCommonVersion ==
    (lastFind.called /\ lastFind.mode = "compatible" /\ specLists # <<>>) =>
        /\ ~CommonVersion => ~lastFind.ok
        /\ lastFind.ok =>
               \A i \in 1..Len(specLists) :
                   ShareVersion(parse_version_spec(lastFind.specs[1].version_spec).spec,
                                FindParsed[i])


\* The place in the list of the spec that is tracked after the specs up to
\* place i have been seen, when a later spec takes the place of the tracked
\* one only if its lower bound is strictly greater, or the lower bounds
\* are equal and its upper bound is strictly tighter.
RECURSIVE TrackedByRule(_, _)
TrackedByRule(i, k) ==
    IF i > Len(specLists) THEN k
    ELSE LET new == FindParsed[i]
             tracked == FindParsed[k]
             replaces ==
                 /\ new # tracked
                 /\ \/ VLess(tracked.lowerbound, new.lowerbound)
                    \/ /\ new.lowerbound = tracked.lowerbound
                       /\ new.upperbound # None
                       /\ \/ tracked.upperbound = None
                          \/ VLess(new.upperbound, tracked.upperbound)
         IN  TrackedByRule(i + 1, IF replaces THEN i ELSE k)

\* C28: a later-seen spec replaces the tracked spec of its constraint only
\* if its lower bound is strictly greater, or its lower bound is equal and
\* its upper bound strictly tighter; a spec with a smaller lower bound
\* never replaces the tracked one.  So the spec a call returns is the one
\* this rule leaves tracked.
C28_ReplacementRule ==
    (lastFind.called /\ lastFind.ok /\ specLists # <<>>) =>
        lastFind.specs[1].version_spec = FindInputs[TrackedByRule(2, 1)]


(***************************************************************************)
(* What the claims on the parser speak of                                  *)
(***************************************************************************)
\* C29: a VersionSpec that parse_version_spec or intersect returns with
\* both bounds has its lower bound at or below its upper bound; an input
\* that would give another is rejected with an error.
C29_BoundsInOrder ==
    /\ (lastParse.called /\ lastParse.ok
          /\ lastParse.spec.lowerbound # None /\ lastParse.spec.upperbound # None)
           => ~VLess(lastParse.spec.upperbound, lastParse.spec.lowerbound)
    /\ (lastIntersect.called /\ lastIntersect.ok
          /\ lastIntersect.spec.lowerbound # None
          /\ lastIntersect.spec.upperbound # None)
           => ~VLess(lastIntersect.spec.upperbound, lastIntersect.spec.lowerbound)


\* The version a literal stands for: the parts that are not written are 0.
VersionOf(p) ==
    <<p[1], IF Len(p) >= 2 THEN p[2] ELSE 0, IF Len(p) >= 3 THEN p[3] ELSE 0>>

\* C30: a caret spec parses to [v, up) with the lower bound inclusive and
\* the upper bound exclusive, up being v with the patch bumped for 0.0.z,
\* the minor bumped for 0.y.z with y > 0 and the major bumped otherwise; a
\* tilde spec parses to [v, up) with the major bumped when only a major
\* number is written and the minor bumped otherwise.
C30_CaretTilde ==
    lastParse.called =>
        \A p \in ParseLiterals :
            LET v == VersionOf(p)
            IN  /\ versionSpec = SpecString(<<"^">>, p) =>
                    /\ lastParse.ok
                    /\ lastParse.spec =
                           [lowerbound |-> v,
                            upperbound |->
                                IF v[1] = 0 /\ v[2] = 0 THEN <<0, 0, v[3] + 1>>
                                ELSE IF v[1] = 0 THEN <<0, v[2] + 1, 0>>
                                ELSE <<v[1] + 1, 0, 0>>,
                            is_lowerbound_inclusive |-> TRUE,
                            is_upperbound_inclusive |-> FALSE]
                /\ versionSpec = SpecString(<<"~">>, p) =>
                    /\ lastParse.ok
                    /\ lastParse.spec =
                           [lowerbound |-> v,
                            upperbound |->
                                IF Len(p) = 1 THEN <<v[1] + 1, 0, 0>>
                                ELSE <<v[1], v[2] + 1, 0>>,
                            is_lowerbound_inclusive |-> TRUE,
                            is_upperbound_inclusive |-> FALSE]

\* "^0.0.2" has been parsed to [0.0.2, 0.0.3).
C30_Witness ==
    /\ lastParse.called /\ lastParse.ok
    /\ versionSpec = SpecString(<<"^">>, <<0, 0, 2>>)
    /\ lastParse.spec.lowerbound = <<0, 0, 2>>
    /\ lastParse.spec.upperbound = <<0, 0, 3>>


\* C31: a spec string with no operator, a bare version, parses to the same
\* VersionSpec as "==" before that version: both bounds are the version and
\* both are inclusive.
C31_BareIsExact ==
    lastParse.called =>
        \A p \in ParseLiterals :
            versionSpec = <<Lit(p)>> =>
                /\ lastParse.ok
                /\ lastParse.spec = parse_version_spec(SpecString(<<"=", "=">>, p)).spec
                /\ lastParse.spec =
                       [lowerbound |-> VersionOf(p), upperbound |-> VersionOf(p),
                        is_lowerbound_inclusive |-> TRUE,
                        is_upperbound_inclusive |-> TRUE]


(***************************************************************************)
(* C32: VersionSpec.update_version(v) raises when v is not compatible with *)
(* the spec; otherwise, when the spec has no lower bound or its lower      *)
(* bound is below v, it returns a spec with lower bound v, inclusive, and  *)
(* the upper bound and its flag unchanged; and it returns None when v is   *)
(* not newer than the lower bound.                                         *)
(***************************************************************************)
C32_UpdateVersion ==
    lastUpdateVersion.called =>
        LET self == parse_version_spec(versionSpec).spec
            v == lastUpdateVersion.version
            r == lastUpdateVersion
        IN  IF ~WithinBounds(self, v)
            THEN r.raised
            ELSE IF self.lowerbound = None \/ VLess(self.lowerbound, v)
            THEN /\ ~r.raised /\ ~r.none
                 /\ r.spec.lowerbound = v /\ r.spec.is_lowerbound_inclusive
                 /\ r.spec.upperbound = self.upperbound
                 /\ r.spec.is_upperbound_inclusive = self.is_upperbound_inclusive
            ELSE ~r.raised /\ r.none

\* ">1.0.0" was updated with 1.1.0: the spec returned has the inclusive
\* lower bound 1.1.0.
C32_Witness ==
    /\ lastUpdateVersion.called /\ ~lastUpdateVersion.raised
    /\ ~lastUpdateVersion.none
    /\ versionSpec = SpecString(<<">">>, <<1, 0, 0>>)
    /\ lastUpdateVersion.version = <<1, 1, 0>>
    /\ lastUpdateVersion.spec.lowerbound = <<1, 1, 0>>
    /\ lastUpdateVersion.spec.is_lowerbound_inclusive


\* The packages a package depends on by its manifests: through every entry
\* when dev dependencies count, through the entries of dependencies alone
\* when they do not.
RECURSIVE DeclaredClosure(_, _, _)
DeclaredClosure(P, S, include_dev) ==
    LET step(p) == IF p \notin DOMAIN P THEN {}
                   ELSE IF include_dev THEN DepNames(P[p])
                   ELSE DOMAIN P[p].dependencies
        next == S \cup UNION {step(p) : p \in S}
    IN  IF next = S THEN S ELSE DeclaredClosure(P, next, include_dev)

\* The indexes of the calls of one kind made for a requested package.
CallsOf(calls, op, name) ==
    {i \in 1..Len(calls) : calls[i].op = op /\ calls[i].pkg = name}

(***************************************************************************)
(* C33: for each requested package, install calls manager.install once,    *)
(* with skip_deps the owned packages of its transitive dependency set that *)
(* are not configured for prebuilt binaries and additional_deps the third- *)
(* party and prebuilt owned transitive dependencies the package does not   *)
(* declare directly; only afterwards it calls install_dependency, exactly  *)
(* once for each owned dependency that is not prebuilt; no package is in   *)
(* both skip_deps and additional_deps.                                     *)
(***************************************************************************)
C33_InstallCalls ==
    lastInstall.called =>
        \A k \in 1..Len(lastInstall.pkg_names) :
            LET name == lastInstall.pkg_names[k]
                calls == lastInstall.calls
                prebuilt == lastInstall.use_prebuilt_binaries
                deps == DeclaredClosure(pkgs, {name}, lastInstall.include_dev)
                            \ {name}
                local == {d \in deps : d \in Owned /\ d \notin prebuilt}
                extra == {d \in deps : /\ d \notin Owned \/ d \in prebuilt
                                       /\ d \notin DepNames(pkgs[name])}
            IN  /\ Cardinality(CallsOf(calls, "install", name)) = 1
                /\ \A i \in CallsOf(calls, "install", name) :
                       /\ calls[i].skip_deps = local
                       /\ calls[i].additional_deps = extra
                       /\ calls[i].skip_deps \cap calls[i].additional_deps = {}
                       /\ \A j \in CallsOf(calls, "install_dependency", name) :
                              j > i
                /\ {calls[j].dep : j \in CallsOf(calls, "install_dependency", name)}
                       = local
                /\ \A d \in local :
                       Cardinality({j \in CallsOf(calls, "install_dependency", name) :
                                        calls[j].dep = d}) = 1


\* Two of the loaded packages have the same name.
SharedName(loaded) ==
    \E i, j \in 1..Len(loaded) : i # j /\ loaded[i].name = loaded[j].name

\* The packages as a dictionary, when no two share a name.
LoadedDict(loaded) ==
    [n \in {loaded[i].name : i \in 1..Len(loaded)} |->
        (CHOOSE l \in {loaded[i] : i \in 1..Len(loaded)} : l.name = n).pkg]

\* Some package depends on itself through the declared dependencies.
Cyclic(P) ==
    \E n \in DOMAIN P : n \in DeclaredClosure(P, DepNames(P[n]), TRUE)

(***************************************************************************)
(* C34: discover fails with a duplicate-package error when two loaded      *)
(* packages share a name, and with a cycle error when the loaded packages  *)
(* are cyclic; after either failure the pipeline's pkgs and graph are what *)
(* they were before, and after success they are the newly loaded set and a *)
(* graph built from it.                                                    *)
(***************************************************************************)
C34_Discover ==
    lastDiscover.called =>
        IF SharedName(lastDiscover.loaded)
        THEN /\ lastDiscover.outcome = "duplicate"
             /\ pkgs = lastDiscover.pkgs /\ graph = lastDiscover.graph
        ELSE IF Cyclic(LoadedDict(lastDiscover.loaded))
        THEN /\ lastDiscover.outcome = "cycle"
             /\ pkgs = lastDiscover.pkgs /\ graph = lastDiscover.graph
        ELSE /\ lastDiscover.outcome = "ok"
             /\ pkgs = LoadedDict(lastDiscover.loaded)
             /\ graph.nodes = DOMAIN pkgs \cup UNION {DepNames(pkgs[p]) : p \in DOMAIN pkgs}
             /\ graph.edges = {e \in graph.nodes \X graph.nodes :
                                  e[1] \in DOMAIN pkgs /\ e[2] \in DepNames(pkgs[e[1]])}

\* A discover that found A and B succeeded, and a later one that found A
\* depending on B and B on A failed and left the two packages and their
\* graph in place.
C34_Witness ==
    /\ lastDiscover.called /\ lastDiscover.outcome = "cycle"
    /\ lastDiscover.pkgs # <<>>
    /\ pkgs = lastDiscover.pkgs
    /\ DOMAIN pkgs = {"A", "B"}
    /\ pkgs # LoadedDict(lastDiscover.loaded)


(***************************************************************************)
(* C35: after the scope of Poetry.mask(pkg, skip_deps, additional_deps)    *)
(* (and of Maturin.mask_dependencies) has exited, by its body returning or *)
(* by its body raising, pyproject.toml has exactly the content it had when *)
(* the scope was entered; when both lists are empty or disable is set, the *)
(* file is never renamed or rewritten.                                     *)
(***************************************************************************)
C35_MaskRestores ==
    /\ (~maskScope.open /\ maskScope.exit # "none") =>
           manifest = maskScope.original
    /\ (maskScope.exit # "none" \/ maskScope.open) =>
           ((maskScope.disable
                \/ (maskScope.skip_deps = {} /\ maskScope.additional_deps = {}))
            => /\ maskScope.ops = {}
               /\ manifest = maskScope.original
               /\ cachedManifest = NoFile)

\* A scope that removed B from the manifest and added y was left by an
\* exception of its body: the manifest has B and no y again.
C35_Witness ==
    /\ ~maskScope.open /\ maskScope.exit = "raise" /\ maskScope.active
    /\ maskScope.ops = {"rename", "write"}
    /\ maskScope.skip_deps = {"B"} /\ maskScope.additional_deps = {"y"}
    /\ "B" \in maskScope.original.dependencies
    /\ "B" \notin maskScope.doc.dependencies /\ "y" \in maskScope.doc.dependencies
    /\ failedManifest = maskScope.doc
    /\ manifest = maskScope.original /\ ~manifest.dumped


(***************************************************************************)
(* C36: whenever a.intersect(b) succeeds, a version is compatible with the *)
(* result if and only if it is compatible with both a and b, and           *)
(* b.intersect(a) succeeds with an equal result, also when bounds tie with *)
(* different inclusivity flags or a bound is missing.                      *)
(***************************************************************************)
C36_IntersectMeets ==
    (lastIntersect.called /\ lastIntersect.ok) =>
        LET a == parse_version_spec(versionSpec).spec
            b == parse_version_spec(lastIntersect.other).spec
        IN  /\ \A v \in ProbeVersions :
                   spec_is_version_compatible(lastIntersect.spec, v)
                       <=> /\ spec_is_version_compatible(a, v)
                           /\ spec_is_version_compatible(b, v)
            /\ \E r \in {intersect(b, a)} : r.ok /\ r.spec = lastIntersect.spec

\* ">=1.1.0" was intersected with ">1.1.0", bounds that tie with different flags and no upper bound:
\* the result excludes 1.1.0.
C36_Witness ==
    /\ lastIntersect.called /\ lastIntersect.ok
    /\ versionSpec = SpecString(<<">", "=">>, <<1, 1, 0>>)
    /\ lastIntersect.other = SpecString(<<">">>, <<1, 1, 0>>)
    /\ lastIntersect.spec.lowerbound = <<1, 1, 0>>
    /\ ~lastIntersect.spec.is_lowerbound_inclusive
    /\ lastIntersect.spec.upperbound = None


(***************************************************************************)
(* C37: after a COMPATIBLE pass of enforce_version_consistency that        *)
(* returned, for every package that is not frozen and every owned          *)
(* dependency it declares, the dependency's current version is compatible  *)
(* with every spec declared for it, whatever operator the spec had before  *)
(* the pass.                                                               *)
(***************************************************************************)
C37_CompatibleAfterPass ==
    (lastPass.called /\ lastPass.ok /\ lastPass.mode = "compatible") =>
        \A p \in Owned \ lastPass.freeze_packages :
            \A e \in OwnedSpecsOf(pkgs, p) : StillSatisfied(pkgs, p, e)


(***************************************************************************)
(* C38: a dependency that a package declares as a non-dev dependency is    *)
(* always in dependencies(pkg, include_dev=False), also when the package   *)
(* declares the same name in its dev dependencies as well.                 *)
(***************************************************************************)
C38_ProdDependencyIncluded ==
    (depQuery.pkg # "" /\ ~depQuery.include_dev) =>
        DOMAIN pkgs[depQuery.pkg].dependencies \subseteq depQuery.result


\* The orders in which n lists can be passed.
Orders(n) ==
    {f \in [1..n -> 1..n] : \A i, j \in 1..n : f[i] = f[j] => i = j}

(***************************************************************************)
(* C39: for a fixed set of owners' spec lists, find_latest_specs in mode   *)
(* 'compatible' has the same outcome, the same returned spec for each      *)
(* constraint key or failure, for every order in which the lists are       *)
(* passed.                                                                 *)
(***************************************************************************)
C39_OrderIndependent ==
    (lastFind.called /\ lastFind.mode = "compatible") =>
        \A f \in Orders(Len(specLists)) :
            \E r \in {find_latest_specs([i \in 1..Len(specLists) |-> specLists[f[i]]],
                                        "compatible")} :
                /\ r.ok = lastFind.ok
                /\ r.ok => r.specs = lastFind.specs

====
